---- MODULE Spec2Model ----
(***************************************************************************)
(* Model of the BLEHome connection Session (BLEHomeController in           *)
(* custom_components/blehome/ble_controller.py).                           *)
(*                                                                         *)
(* The controller runs on one asyncio event loop.  A coroutine runs        *)
(* without interruption from one suspension point (an await that really    *)
(* waits) to the next, so every action below is one such run of one task,  *)
(* or one callback of the event loop (a timer, the transport's disconnect  *)
(* callback).  pc[t] names the suspension point task t is parked at.       *)
(* Time is not modelled: a sleeping task may wake at any later step.       *)
(***************************************************************************)
EXTENDS Integers, Sequences, FiniteSets, TLC

\* ---- bounds of the model ----
NumExt == 1          \* tasks of the host that call the public API
NumHb == 2           \* task slots for heartbeat loops
NumRc == 2           \* task slots for persistent-reconnect loops
NumScan == 1         \* task slots for mesh-scan sweeps
MaxTimers == 1       \* pending call_later(10.0, start_scan) timers
MaxAddr == 1         \* mesh addresses that may be in the Registry
ScanRange == 1       \* addresses swept by async_scan_mesh

\* ---- program constants ----
max_retries == 3     \* BLEHomeController.max_retries

Ext == {<<"ext", i>> : i \in 1..NumExt}
HbTasks == {<<"hb", i>> : i \in 1..NumHb}
RcTasks == {<<"rc", i>> : i \in 1..NumRc}
\* one slot more than NumScan: a run uses as many as its limit allows
ScanTasks == {<<"scan", i>> : i \in 1..(NumScan + 1)}
\* Query tasks spawned by connect: every full connect spawns one per known
\* address, and they can only pile up behind connects queued on the lock.
QTasks == {<<"q", i>> : i \in 1..((NumExt + 1) * MaxAddr)}
Tasks == Ext \cup HbTasks \cup RcTasks \cup ScanTasks \cup QTasks
None == <<"none", 0>>
Addrs == 1..MaxAddr

\* retries argument of a connect call of the host: None (0) or a positive count
RetryArgs == {0}

VARIABLES
    connected,           \* self.connected
    client,              \* self.client: "None" or "Client" (a BleakClient object)
    is_connected,        \* self.client.is_connected (FALSE when there is no client)
    has_callback,        \* the current client has _on_disconnected registered
    heartbeat_task,      \* self._heartbeat_task
    reconnect_task,      \* self._reconnect_task
    scan_task,           \* self._scan_task
    scanner,             \* self.scanner is set
    unregister_scanner,  \* self._unregister_scanner is set (the registration is active)
    connection_lock,     \* self._connection_lock: [owner, waiters]
    is_running,          \* hass.is_running
    subdevices,          \* keys of self.subdevices
    scan_timers,         \* pending hass.loop.call_later(10.0, start_scan) timers
    pc,                  \* suspension point of every task
    attempt,             \* loop variable of connect's retry loop, per task
    conn_retries,        \* conn_retries of the connect call, per task
    todo,                \* addresses connect's initial-query loop has not reached yet
    iterated,            \* what became of the dict that connect's initial-query loop iterates
    scan_addr,           \* loop variable of async_scan_mesh, per scan task
    opens,               \* history: transport opens made by the task's connect call
    history,             \* history: "fresh"; "up": a connect call of the host has made
                         \* the Session Connected and the host has called neither
                         \* connect() nor disconnect() since; "lost": as "up", and the
                         \* connection was lost unexpectedly since; "user": the host
                         \* has called disconnect(), or connect() anew; "unloaded":
                         \* async_unload_entry has run, the host calls no more
    closed,              \* history: disconnect() returned and connect was not called since
    last,                \* history: the step just taken
    events,              \* history: the events the step just taken fired on the bus
    substate,            \* self.subdevices: address -> [name, on, brightness]
    options,             \* config_entry.options["subdevices"]: str(address) -> entry
    aliased,             \* addresses whose Registry entry is the very dict the options hold
    dedup,               \* self._bthome_dedup
    reported,            \* history: the on and brightness of the last valid state frame
                         \* handled, per mesh address
    heard,               \* history: the payload of the last proxy frame handled, per
                         \* originator (the six MAC bytes of the frame)
    pending,             \* tasks of the data plane that have not run yet, in order
    ctl,                 \* send_control_command in flight, per host task: its arguments
    found,               \* history: new_subdevice_found events fired, per address
    calc,                \* the locals of a loop or of an encoder followed with its numbers
    limit,               \* what the run is followed up to: pending scan timers, scan
                         \* sweeps not yet done, and the range of a sweep
    query_address,       \* the address argument of send_query_command, per query task
                         \* spawned by connect (0: the task has ended)
    outage               \* history: the sweeps begun and not yet done that have been
                         \* through a state in which the Session was not connected

vars == <<connected, client, is_connected, has_callback, heartbeat_task,
          reconnect_task, scan_task, scanner, unregister_scanner,
          connection_lock, is_running, subdevices, scan_timers, pc, attempt,
          conn_retries, todo, iterated, scan_addr, opens, history, closed,
          last, events, substate, options, aliased, dedup, heard, reported,
          pending, ctl, found, calc, limit, query_address, outage>>

transport == <<client, is_connected, has_callback>>
refs == <<heartbeat_task, reconnect_task, scan_task>>
registration == <<scanner, unregister_scanner>>
session == <<connected, transport, refs, registration, subdevices, scan_timers>>

\* ---- tasks ----
\* task.done() is "done"; a slot that never held a task is "done" as well.
\* Task.cancel() leaves a task "cancelled": not yet done(), it ends when the
\* event loop next runs it.
Live(t) == t # None /\ pc[t] # "done"

LiveIn(pcf, t) == t # None /\ pcf[t] # "done"

Index(t) == t[2]

HasFree(P) == \E x \in P : pc[x] = "done"

\* hass.async_create_task: the new task takes the lowest free slot
FreeSlot(P) == CHOOSE x \in P : pc[x] = "done" /\ \A y \in P : pc[y] = "done" => Index(x) <= Index(y)

\* the tasks that still run their code
LiveTasks(P) == {x \in P : pc[x] \notin {"done", "cancelled"}}

\* no cancelled task is waiting to be unwound
Quiet == \A x \in Tasks : pc[x] # "cancelled"

\* ---- asyncio.Lock ----
Without(seq, K) == SelectSeq(seq, LAMBDA x : x \notin K)

\* Lock.release: the first waiter is woken and takes the lock
LockRelease(lk) ==
    IF lk.waiters = <<>>
    THEN [owner |-> None, waiters |-> <<>>]
    ELSE [owner |-> Head(lk.waiters), waiters |-> Tail(lk.waiters)]

\* a lock that is granted to whoever asks, whether it is held or not
LockAcquire_NoQueue(lk, t) == [owner |-> t, waiters |-> lk.waiters]

\* Lock.acquire: immediate when the lock is free and nobody waits, else queue
LockAcquire(lk, t) ==
    IF lk.owner = None /\ lk.waiters = <<>>
    THEN [owner |-> t, waiters |-> <<>>]
    ELSE [owner |-> lk.owner, waiters |-> Append(lk.waiters, t)]

\* a cancel that leaves the lock with a holder it has ended
LockCancel_KeepsOwner(lk, K) == [owner |-> lk.owner, waiters |-> Without(lk.waiters, K)]

\* Task.cancel on the tasks K: a waiter leaves the queue, a holder leaves the
\* `async with` block and releases
LockCancel(lk, K) ==
    LET w == [owner |-> lk.owner, waiters |-> Without(lk.waiters, K)]
    IN IF lk.owner \in K THEN LockRelease(w) ELSE w

Holds(t) == connection_lock.owner = t

\* ---- events and the data plane ----
\* hass.bus.async_fire(f"{DOMAIN}_availability_changed", {"connected": c})
AvailabilityChanged(c) == <<"availability_changed", c>>

\* a callback that tells nobody
DisconnectedEvents_Silent == <<>>

\* what _on_disconnected fires when it finds the Session Connected
DisconnectedEvents == <<AvailabilityChanged(FALSE)>>

\* hass.bus.async_fire(f"{DOMAIN}_rssi_updated", ...)
RssiUpdated == <<"rssi_updated", None>>

\* f"{address:04x}": four lower-case hexadecimal digits (more above 0xffff)
HexChars == <<"0", "1", "2", "3", "4", "5", "6", "7", "8", "9", "a", "b", "c", "d", "e", "f">>

RECURSIVE HexOf(_)
HexOf(n) == IF n < 16 THEN <<HexChars[n + 1]>> ELSE Append(HexOf(n \div 16), HexChars[(n % 16) + 1])

RECURSIVE PadLeft(_, _)
PadLeft(str, width) == IF Len(str) >= width THEN str ELSE PadLeft(<<"0">> \o str, width)

\* controller.device_type and controller.mac_suffix of the modelled gateway,
\* as async_setup_entry copies them from the config entry (the suffix is the
\* last four hex digits of the MAC, lower case)
device_type == "blehome.tled"
mac_suffix == "a1b2"

\* name = f"{self.device_type}.{self.mac_suffix}.light.{address:04x}"
SubdeviceName(address) ==
    <<device_type, ".", mac_suffix, ".light.", PadLeft(HexOf(address), 4)>>

\* str(address), the key of a subdevice in the options, and int(k) (IntOf)
DecChars == <<"0", "1", "2", "3", "4", "5", "6", "7", "8", "9">>

RECURSIVE Str(_)
Str(n) == IF n < 10 THEN <<DecChars[n + 1]>> ELSE Append(Str(n \div 10), DecChars[(n % 10) + 1])

DigitValue(c) == (CHOOSE i \in 1..10 : DecChars[i] = c) - 1

RECURSIVE IntOf(_)
IntOf(k) == IF Len(k) = 1 THEN DigitValue(k[1])
          ELSE 10 * IntOf(SubSeq(k, 1, Len(k) - 1)) + DigitValue(k[Len(k)])

\* an entry of the Registry
Entry(name, is_on, brightness) == [name |-> name, on |-> is_on, brightness |-> brightness]

\* no control command is in flight
NoCtl == <<>>

\* addresses the inbound state frames of the model carry
FrameAddrs == {0, 1, 258}

\* the Registry's contents, the persisted options, the dedup table and the
\* tasks of the data plane
datavars == <<subdevices, substate, options, aliased, dedup, heard, reported, pending, found>>

\* the data plane but for the keys of the Registry, and the control command
\* in flight
regvars == <<substate, options, aliased, dedup, heard, reported, pending, found, ctl>>

\* no loop and no encoder is followed with its numbers
NoCalc == [of |-> "none", at |-> "none", attempt |-> 0, retries |-> 0, timeout |-> 0,
           wait_time |-> 0, args |-> <<>>, frame |-> <<>>]

\* the sweeps that have begun, are neither done nor cancelled, and have been
\* through a state, this one included, in which self.connected was False
Outlived ==
    {s \in ScanTasks : /\ pc[s] \notin {"done", "cancelled", "sn_new"}
                       /\ s \in outage \/ ~connected}

\* the arguments of the query tasks, those of the tasks that have ended
\* forgotten
Retired == [q \in QTasks |-> IF pc[q] = "done" THEN 0 ELSE query_address[q]]

\* a step of the event loop, which emits the events evs and may spawn a
\* query task
Ran(l, t, evs) ==
    /\ Quiet
    /\ last' = <<l, t>>
    /\ events' = evs
    /\ outage' = Outlived
    /\ UNCHANGED <<calc, limit>>

\* a step of the event loop, which emits the events evs
Did(l, t, evs) ==
    /\ Ran(l, t, evs)
    /\ query_address' = Retired

\* a step of the connection machinery: it leaves the data plane alone
Step(l, t, evs) ==
    /\ Did(l, t, evs)
    /\ UNCHANGED regvars

\* the arguments of task t's send_control_command become c
SetCtl(t, c) == ctl' = IF t \in Ext THEN [ctl EXCEPT ![t] = c] ELSE ctl

\* ---- initial state: BLEHomeController.__init__ and async_setup_entry ----
Init ==
    /\ connected = FALSE
    /\ client = "None"
    /\ is_connected = FALSE
    /\ has_callback = FALSE
    /\ heartbeat_task = None
    /\ reconnect_task = None
    /\ scan_task = None
    /\ scanner = FALSE
    /\ unregister_scanner = FALSE
    /\ connection_lock = [owner |-> None, waiters |-> <<>>]
    /\ is_running = TRUE
    /\ subdevices \in SUBSET Addrs
    /\ scan_timers = 0
    /\ pc = [t \in Tasks |-> IF t \in Ext THEN "idle" ELSE "done"]
    /\ attempt = [t \in Tasks |-> 0]
    /\ conn_retries = [t \in Tasks |-> 0]
    /\ todo = {}
    /\ iterated = "same"
    /\ scan_addr = [t \in ScanTasks |-> 0]
    /\ opens = [t \in Tasks |-> 0]
    /\ history = "fresh"
    /\ closed = FALSE
    /\ last = <<"init", None>>
    /\ events = <<>>
    /\ substate = [a \in subdevices |-> Entry(SubdeviceName(a), FALSE, 0)]
    /\ options = [k \in {Str(a) : a \in subdevices} |-> substate[IntOf(k)]]
    /\ aliased = subdevices
    /\ dedup = [m \in {} |-> <<>>]
    /\ heard = [m \in {} |-> <<>>]
    /\ reported = [a \in {} |-> <<>>]
    /\ pending = <<>>
    /\ ctl = [e \in Ext |-> NoCtl]
    /\ found = [a \in FrameAddrs |-> 0]
    /\ calc = NoCalc
    /\ limit = [timers |-> MaxTimers, sweeps |-> NumScan, range |-> ScanRange]
    /\ outage = {}
    /\ query_address = [q \in QTasks |-> 0]

\* ---- helpers shared by the handlers ----
ConnectPcs == {"cn_wait", "cn_close", "cn_open", "cn_notify", "cn_query", "cn_backoff"}

\* the locals of a connect call exist while the call runs
CallLocals(f) == [t \in Tasks |-> IF pc'[t] \in ConnectPcs THEN f[t] ELSE 0]

SetLocals(att, ret, opn) ==
    /\ attempt' = CallLocals(att)
    /\ conn_retries' = CallLocals(ret)
    /\ opens' = CallLocals(opn)

KeepLocals == SetLocals(attempt, conn_retries, opens)

\* the loop variable of a scan sweep exists while the sweep runs
KeepScanAddr ==
    scan_addr' = [s \in ScanTasks |-> IF pc'[s] \in {"done", "cancelled"} THEN 0 ELSE scan_addr[s]]

\* an unexpected loss of a Session that was Connected is recorded
Lost == history' = IF history = "up" THEN "lost" ELSE history

\* Task.cancel() on the tasks K
Kill(pcf, K) == [x \in Tasks |-> IF x \in K /\ pcf[x] # "done" THEN "cancelled" ELSE pcf[x]]

\* the smallest element of a non-empty set of addresses (dict order of the Registry)
MinOf(S) == CHOOSE a \in S : \A b \in S : a <= b

\* value of `retries or self.max_retries`
ConnRetries(r) == IF r = 0 THEN max_retries ELSE r

\* a connect without the early return
AlreadyConnected_Never == FALSE

\* `if self.connected and self.client and self.client.is_connected: return True`
AlreadyConnected == connected /\ client # "None" /\ is_connected

\* a send_command that never refuses
CannotSend_Never == FALSE

\* `if not self.connected or not self.client or not self.client.is_connected: return False`
CannotSend == ~connected \/ client = "None" \/ ~is_connected

\* a _stop_heartbeat that cancels nothing
StopHeartbeatTargets_None == {}

\* _stop_heartbeat: the task it cancels
StopHeartbeatTargets == IF Live(heartbeat_task) THEN {heartbeat_task} ELSE {}

\* a failure handler that starts a reconnect task without looking
NeedReconnect_Always == TRUE

\* `if not self._reconnect_task or self._reconnect_task.done()`
NeedReconnect == ~Live(reconnect_task)

\* a failure handler that leaves self.connected as it found it
FailureConnected_Stays == connected

\* the value the failure handlers give self.connected
FailureConnected == FALSE

\* `if attempt < conn_retries - 1` / range(conn_retries): another attempt follows
HasNextAttempt(t) == attempt[t] < conn_retries[t] - 1

\* the tasks _cleanup_client cancels when task t runs it
CleanupTargets(t) ==
    StopHeartbeatTargets
    \cup (IF Live(scan_task) THEN {scan_task} ELSE {})
    \cup (IF Live(reconnect_task) /\ reconnect_task # t THEN {reconnect_task} ELSE {})

\* a _cleanup_client that leaves self.connected as it found it
CleanupConnected_Stale == connected

\* the value _cleanup_client leaves in self.connected
CleanupConnected == FALSE

\* what a task does when its connect call returns ok
ConnectRet(t, ok) == IF t \in Ext THEN "idle" ELSE IF ok THEN "done" ELSE "rc_sleep"

\* Whether `await self.client.disconnect()` suspends: taking down a link that
\* is up needs the transport, while a handle whose link is already gone (or
\* was never up) may return or raise at once.
ClientDisconnectSuspends == IF is_connected THEN {TRUE} ELSE {TRUE, FALSE}

\* the synchronous head of _cleanup_client, run by t under the lock
CleanupSync(t) ==
    /\ heartbeat_task' = IF Live(heartbeat_task) THEN None ELSE heartbeat_task
    /\ scan_task' = IF Live(scan_task) THEN None ELSE scan_task
    /\ reconnect_task' = IF Live(reconnect_task) /\ reconnect_task # t
                         THEN None ELSE reconnect_task
    /\ scanner' = IF unregister_scanner THEN FALSE ELSE scanner
    /\ unregister_scanner' = FALSE

\* One iteration of connect's retry loop up to its first suspension:
\* _cleanup_client, then (when there was no client to close) the new
\* BleakClient and the start of client.connect.  lk is the lock with t as
\* its owner and ret the conn_retries of the call.
BeginAttempt(t, n, lk, ret) ==
    /\ CleanupSync(t)
    /\ connection_lock' = LockCancel(lk, CleanupTargets(t))
    /\ \E suspends \in ClientDisconnectSuspends :
          IF client # "None" /\ suspends
          THEN /\ pc' = [Kill(pc, CleanupTargets(t)) EXCEPT ![t] = "cn_close"]
               /\ SetLocals([attempt EXCEPT ![t] = n], ret, opens)
               /\ Step("step", None, <<>>)
               /\ UNCHANGED <<connected, transport>>
          ELSE /\ pc' = [Kill(pc, CleanupTargets(t)) EXCEPT ![t] = "cn_open"]
               /\ SetLocals([attempt EXCEPT ![t] = n], ret,
                            [opens EXCEPT ![t] = @ + 1])
               /\ connected' = CleanupConnected
               /\ client' = "Client"
               /\ is_connected' = FALSE
               /\ has_callback' = FALSE
               /\ IF client # "None"
                  THEN Step("cleanup_done", t, <<>>)
                  ELSE Step("step", None, <<>>)
    /\ KeepScanAddr
    /\ UNCHANGED <<is_running, subdevices, scan_timers, todo, iterated>>

\* all attempts used: `self.connected = False; return False`
Exhausted(t) ==
    /\ connected' = FALSE
    /\ connection_lock' = LockRelease(connection_lock)
    /\ pc' = [pc EXCEPT ![t] = ConnectRet(t, FALSE)]
    /\ KeepLocals
    /\ Step("connect_fail", t, <<>>)
    /\ UNCHANGED <<transport, refs, registration, is_running, subdevices,
                   scan_timers, todo, iterated, scan_addr, history, closed>>

\* ---- connect ----
\* A task that calls connect, disconnect or send_command runs on into the
\* locked block when the lock is free, and parks in the lock's queue when not.
LockFree == connection_lock.owner = None /\ connection_lock.waiters = <<>>

\* connect from the moment it owns the lock (lk): the idempotence check,
\* else the first attempt
ConnectBody(t, lk, ret) ==
    IF AlreadyConnected
    THEN /\ connection_lock' = LockRelease(lk)
         /\ pc' = [pc EXCEPT ![t] = ConnectRet(t, TRUE)]
         /\ KeepLocals
         /\ Step("connect_idem", t, <<>>)
         /\ UNCHANGED <<session, is_running, todo, iterated, scan_addr>>
    ELSE BeginAttempt(t, 0, lk, ret)

\* the call of connect by task t, which goes on at pc "cn_wait" if it must wait
CallConnectBy(t, r) ==
    IF LockFree
    THEN ConnectBody(t, LockAcquire(connection_lock, t),
                     [conn_retries EXCEPT ![t] = ConnRetries(r)])
    ELSE /\ pc' = [pc EXCEPT ![t] = "cn_wait"]
         /\ connection_lock' = LockAcquire(connection_lock, t)
         /\ SetLocals(attempt, [conn_retries EXCEPT ![t] = ConnRetries(r)], opens)
         /\ Step("step", None, <<>>)
         /\ UNCHANGED <<session, is_running, todo, iterated, scan_addr>>

\* the host calls connect()
CallConnect(e, r) ==
    /\ pc[e] = "idle"
    /\ history # "unloaded"
    /\ CallConnectBy(e, r)
    /\ closed' = FALSE
    /\ history' = IF history = "fresh" THEN "fresh" ELSE "user"

\* the lock is handed to a waiting connect call
ConnectEnter(t) ==
    /\ pc[t] = "cn_wait"
    /\ Holds(t)
    /\ ConnectBody(t, connection_lock, conn_retries)
    /\ UNCHANGED <<history, closed>>

\* client.disconnect() of _cleanup_client returned (or raised): the rest of
\* _cleanup_client, the new BleakClient, the start of client.connect
CleanupClosed(t) ==
    /\ pc[t] = "cn_close"
    /\ client' = "Client"
    /\ is_connected' = FALSE
    /\ has_callback' = FALSE
    /\ connected' = CleanupConnected
    /\ opens' = [opens EXCEPT ![t] = @ + 1]
    /\ pc' = [pc EXCEPT ![t] = "cn_open"]
    /\ Step("cleanup_done", t, <<>>)
    /\ UNCHANGED <<refs, registration, connection_lock, is_running, subdevices,
                   scan_timers, attempt, conn_retries, todo, iterated, scan_addr, history,
                   closed>>

\* client.connect raised (BleakError, timeout)
OpenRaise(t) ==
    /\ pc[t] = "cn_open"
    /\ IF HasNextAttempt(t)
       THEN /\ pc' = [pc EXCEPT ![t] = "cn_backoff"]
            /\ Step("step", None, <<>>)
            /\ UNCHANGED <<session, connection_lock, is_running, attempt,
                           conn_retries, opens, todo, iterated, scan_addr, history, closed>>
       ELSE Exhausted(t)

\* client.connect returned but client.is_connected is false: no exception,
\* so the loop goes to its next iteration at once
OpenNoConn(t) ==
    /\ pc[t] = "cn_open"
    /\ IF HasNextAttempt(t)
       THEN /\ BeginAttempt(t, attempt[t] + 1, connection_lock, conn_retries)
            /\ UNCHANGED <<history, closed>>
       ELSE Exhausted(t)

\* the wait min(5 * (attempt + 1), 30) is over
BackoffDone(t) ==
    /\ pc[t] = "cn_backoff"
    /\ BeginAttempt(t, attempt[t] + 1, connection_lock, conn_retries)
    /\ UNCHANGED <<history, closed>>

\* client.connect succeeded: self.connected = True, _setup_notifications starts
OpenOk(t) ==
    /\ pc[t] = "cn_open"
    /\ is_connected' = TRUE
    /\ connected' = TRUE
    /\ pc' = [pc EXCEPT ![t] = "cn_notify"]
    /\ history' = IF t \in Ext /\ ~(\E e \in Ext \ {t} : pc[e] # "idle")
                       /\ history # "unloaded"
                  THEN "up" ELSE history
    /\ Step("step", None, <<>>)
    /\ UNCHANGED <<client, has_callback, refs, registration, connection_lock,
                   is_running, subdevices, scan_timers, attempt, conn_retries,
                   opens, todo, iterated, scan_addr, closed>>

\* HAS_BLUETOOTH_SCANNER: the scanner base class could be imported
HAS_BLUETOOTH_SCANNER == TRUE

\* Outcomes of the proxy registration block: registered; async_register_scanner
\* raised after self.scanner was assigned; raised before it was assigned
RegOutcomes == {"registered", "raised_late", "raised_early"}

\* The tail of a successful attempt, from the scan kick-off to `return True`,
\* applied to the pc and lock values pcf and lk the step has produced so far.
ConnectFinish(t, pcf, lk) ==
    /\ scan_timers < limit.timers
    /\ LET K == IF LiveIn(pcf, scan_task) THEN {scan_task} ELSE {}
       IN /\ pc' = [Kill(pcf, K) EXCEPT ![t] = ConnectRet(t, TRUE)]
          /\ connection_lock' = LockRelease(LockCancel(lk, K))
    /\ scan_timers' = scan_timers + 1
    /\ IF HAS_BLUETOOTH_SCANNER /\ ~scanner
       THEN \E out \in RegOutcomes :
               /\ scanner' = (out # "raised_early")
               /\ unregister_scanner' = IF out = "registered" THEN TRUE
                                        ELSE unregister_scanner
       ELSE UNCHANGED <<scanner, unregister_scanner>>
    /\ todo' = {}
    /\ KeepLocals
    /\ KeepScanAddr
    /\ Step("connect_ok", t, <<AvailabilityChanged(TRUE)>>)

\* a connect that paces through the Registry without spawning a query
SpawnQuery_Paces(t, pcf, S) ==
    /\ pc' = [pcf EXCEPT ![t] = "cn_query"]
    /\ connection_lock' = connection_lock
    /\ todo' = S \ {MinOf(S)}
    /\ Did("step", None, <<>>)
    /\ UNCHANGED regvars
    /\ UNCHANGED <<scan_timers, scanner, unregister_scanner, attempt,
                   conn_retries, opens, scan_addr>>

\* connect spawns send_query_command for the first address of S and sleeps 0.1 s
SpawnQuery(t, pcf, S) ==
    /\ HasFree(QTasks)
    /\ pc' = [pcf EXCEPT ![FreeSlot(QTasks)] = "sc_wait", ![t] = "cn_query"]
    /\ connection_lock' = LockAcquire(connection_lock, FreeSlot(QTasks))
    /\ todo' = S \ {MinOf(S)}
    /\ query_address' = [Retired EXCEPT ![FreeSlot(QTasks)] = MinOf(S)]
    /\ Ran("step", None, <<>>)
    /\ UNCHANGED regvars
    /\ UNCHANGED <<scan_timers, scanner, unregister_scanner, attempt,
                   conn_retries, opens, scan_addr>>

\* a _start_heartbeat that starts no loop
StartsHeartbeat_Never == FALSE

\* _start_heartbeat starts a loop unless self._heartbeat_task is set and not
\* done
StartsHeartbeat == ~Live(heartbeat_task)

\* _setup_notifications is over: _start_heartbeat, set_disconnected_callback,
\* then the initial-query loop up to its first sleep(0.1), or, with an empty
\* Registry, the rest of the attempt
NotifyDone(t) ==
    /\ pc[t] = "cn_notify"
    /\ StartsHeartbeat => HasFree(HbTasks)
    /\ LET startHb == StartsHeartbeat
           h == FreeSlot(HbTasks)
           pc1 == IF startHb THEN [pc EXCEPT ![h] = "hb_new"] ELSE pc
       IN /\ heartbeat_task' = IF startHb THEN h ELSE heartbeat_task
          /\ has_callback' = TRUE
          /\ IF subdevices = {}
             THEN ConnectFinish(t, pc1, connection_lock)
             ELSE SpawnQuery(t, pc1, subdevices)
    /\ iterated' = "same"
    /\ UNCHANGED <<connected, client, is_connected, reconnect_task, scan_task,
                   is_running, subdevices, history, closed>>

\* a sleep(0.1) of the initial-query loop is over and the dict the loop
\* iterates has kept its size: the next query task, or the rest of the attempt
QueryPace(t) ==
    /\ pc[t] = "cn_query"
    /\ iterated # "resized"
    /\ IF todo = {}
       THEN ConnectFinish(t, pc, connection_lock) /\ iterated' = "same"
       ELSE SpawnQuery(t, pc, todo) /\ UNCHANGED iterated
    /\ UNCHANGED <<connected, transport, refs, is_running, subdevices, history,
                   closed>>

\* a sleep(0.1) of the initial-query loop is over and the dict the loop
\* iterates has changed size: `for addr in self.subdevices` raises
\* RuntimeError, which the `except` of the attempt takes for a failed attempt
QueryRaise(t) ==
    /\ pc[t] = "cn_query"
    /\ iterated = "resized"
    /\ IF HasNextAttempt(t)
       THEN /\ pc' = [pc EXCEPT ![t] = "cn_backoff"]
            /\ Step("step", None, <<>>)
            /\ UNCHANGED <<session, connection_lock, is_running, attempt,
                           conn_retries, opens, todo, iterated, scan_addr,
                           history, closed>>
       ELSE Exhausted(t)

\* ---- disconnect ----
InConnect(t) == pc[t] \in ConnectPcs

\* disconnect() returns to the host
DisconnectReturn(t) ==
    /\ closed' = ~(\E e \in Ext : InConnect(e))
    /\ Step("disconnect_ret", t, <<>>)

\* disconnect from the moment it owns the lock (lk): _cleanup_client up to
\* client.disconnect(), or to the end when there is no client
DisconnectBody(t, lk) ==
    /\ CleanupSync(t)
    /\ \E suspends \in ClientDisconnectSuspends :
          IF client # "None" /\ suspends
          THEN /\ pc' = [Kill(pc, CleanupTargets(t)) EXCEPT ![t] = "dc_close"]
               /\ connection_lock' = LockCancel(lk, CleanupTargets(t))
               /\ Step("step", None, <<>>)
               /\ UNCHANGED <<connected, transport, closed>>
          ELSE /\ pc' = [Kill(pc, CleanupTargets(t)) EXCEPT ![t] = "idle"]
               /\ connection_lock' = LockRelease(LockCancel(lk, CleanupTargets(t)))
               /\ connected' = CleanupConnected
               /\ client' = "None"
               /\ is_connected' = FALSE
               /\ has_callback' = FALSE
               /\ DisconnectReturn(t)
    /\ KeepLocals
    /\ KeepScanAddr
    /\ UNCHANGED <<is_running, subdevices, scan_timers, todo, iterated>>

\* the call of disconnect by task t, which goes on at pc "dc_wait" if it
\* must wait
CallDisconnectBy(t) ==
    IF LockFree
    THEN DisconnectBody(t, LockAcquire(connection_lock, t))
    ELSE /\ pc' = [pc EXCEPT ![t] = "dc_wait"]
         /\ connection_lock' = LockAcquire(connection_lock, t)
         /\ Step("step", None, <<>>)
         /\ UNCHANGED <<session, is_running, attempt, conn_retries, opens,
                        todo, iterated, scan_addr, closed>>

\* the host calls disconnect()
CallDisconnect(e) ==
    /\ pc[e] = "idle"
    /\ history # "unloaded"
    /\ CallDisconnectBy(e)
    /\ history' = "user"

\* async_unload_entry: the controller is dropped from hass.data and
\* disconnect() is called if the Session is marked Connected
Unload(e) ==
    /\ pc[e] = "idle"
    /\ history # "unloaded"
    /\ history' = "unloaded"
    /\ IF connected
       THEN CallDisconnectBy(e)
       ELSE /\ Step("unload", e, <<>>)
            /\ UNCHANGED <<session, connection_lock, is_running, pc, attempt,
                           conn_retries, opens, todo, iterated, scan_addr, closed>>

\* the lock is handed to a waiting disconnect call
DisconnectEnter(t) ==
    /\ pc[t] = "dc_wait"
    /\ Holds(t)
    /\ DisconnectBody(t, connection_lock)
    /\ UNCHANGED history

\* client.disconnect() returned (or raised): the rest of _cleanup_client
DisconnectClosed(t) ==
    /\ pc[t] = "dc_close"
    /\ client' = "None"
    /\ is_connected' = FALSE
    /\ has_callback' = FALSE
    /\ connected' = CleanupConnected
    /\ pc' = [pc EXCEPT ![t] = "idle"]
    /\ connection_lock' = LockRelease(connection_lock)
    /\ DisconnectReturn(t)
    /\ UNCHANGED <<refs, registration, is_running, subdevices, scan_timers,
                   attempt, conn_retries, opens, todo, iterated, scan_addr, history>>

\* ---- the Registry ----
\* hass.bus.async_fire(f"{DOMAIN}_subdevice_updated", {"address", "state"})
SubdeviceUpdated(address, is_on, brightness) ==
    <<"subdevice_updated", [address |-> address, on |-> is_on, brightness |-> brightness]>>

\* hass.bus.async_fire(f"{DOMAIN}_new_subdevice_found", {"address", "name", "state"})
NewSubdeviceFound(address, e) ==
    <<"new_subdevice_found",
      [address |-> address, name |-> e.name, on |-> e.on, brightness |-> e.brightness]>>

\* a function with one more (or one changed) point
Put(f, k, v) == [x \in DOMAIN f \cup {k} |-> IF x = k THEN v ELSE f[x]]

\* self.subdevices[address]["state"] = {"on": is_on, "brightness": brightness}
\* in the Registry reg
SetState(reg, address, is_on, brightness) ==
    [reg EXCEPT ![address] = Entry(@.name, is_on, brightness)]

\* The same assignment seen from the options opt: the entry dict is the one
\* the options hold when the Registry was loaded from them, so its "state"
\* key changes there too; an entry made by discovery is a dict of its own.
SetStateInOptions(opt, address, is_on, brightness) ==
    IF address \in aliased /\ Str(address) \in DOMAIN opt
    THEN [opt EXCEPT ![Str(address)] = Entry(@.name, is_on, brightness)]
    ELSE opt

\* normalized_brightness = brightness if brightness else 0
NormalizedBrightness(brightness) == IF brightness # 0 THEN brightness ELSE 0

\* a send_control_command that records what it sent for any address
ControlUpdates_Unchecked(c) == c # NoCtl

\* a send_control_command that forgets the Registry
ControlUpdates_Never(c) == FALSE

\* `if success and address in self.subdevices` of send_control_command, for
\* the arguments c of the call (NoCtl: another caller of send_command)
ControlUpdates(c) == c # NoCtl /\ c.address \in subdevices

\* what a send_command that returned True does to the Registry when
\* send_control_command made the call with arguments c
AfterControl(c) ==
    IF ControlUpdates(c)
    THEN /\ substate' = SetState(substate, c.address, c.is_on,
                                 NormalizedBrightness(c.brightness))
         /\ options' = SetStateInOptions(options, c.address, c.is_on,
                                         NormalizedBrightness(c.brightness))
         /\ UNCHANGED <<aliased, dedup, heard, reported, pending, found>>
    ELSE UNCHANGED <<substate, options, aliased, dedup, heard, reported, pending, found>>

\* the events of that step
ControlEvents(c) ==
    IF ControlUpdates(c)
    THEN <<SubdeviceUpdated(c.address, c.is_on, NormalizedBrightness(c.brightness))>>
    ELSE <<>>

\* ---- send_command ----
\* where a task goes when its send_command call has returned: the host's
\* task is idle again, a query task ends, a scan sweep sleeps 1.0 s, and a
\* heartbeat loop fetches the signal strength: client.get_rssi() either
\* suspends or fails at once (no client, or the client has no such method)
AfterSend(t) ==
    IF t \in Ext THEN {"idle"}
    ELSE IF t \in QTasks THEN {"done"}
    ELSE IF t \in ScanTasks THEN {"sn_sleep"}
    ELSE IF client = "None" THEN {"hb_sleep"}
    ELSE {"hb_rssi", "hb_sleep"}

\* What the heartbeat loop fires after its send_command when get_rssi did
\* not suspend, or after get_rssi: rssi_updated if a signal strength is known
LoopEvents(t, nxt) ==
    IF t \in HbTasks /\ nxt = "hb_sleep" THEN {<<>>, <<RssiUpdated>>} ELSE {<<>>}

\* send_command from the moment it owns the lock (lk): the not-connected
\* check, else the write starts.  c: the arguments of send_control_command
\* when it makes the call, else NoCtl.
SendBody(t, lk, c) ==
    /\ IF CannotSend
       THEN /\ \E nxt \in AfterSend(t) : \E evs \in LoopEvents(t, nxt) :
                  /\ pc' = [pc EXCEPT ![t] = nxt]
                  /\ Did("send_noop", t, evs)
            /\ connection_lock' = LockRelease(lk)
            /\ SetCtl(t, NoCtl)
       ELSE /\ pc' = [pc EXCEPT ![t] = "sc_write"]
            /\ connection_lock' = lk
            /\ Did("step", None, <<>>)
            /\ SetCtl(t, c)
    /\ UNCHANGED <<session, is_running, attempt, conn_retries, opens, todo, iterated>>
    /\ UNCHANGED <<substate, options, aliased, dedup, heard, reported, pending, found>>

\* the call of send_command by task t, which goes on at pc "sc_wait" if it
\* must wait
CallSendWith(t, c) ==
    IF LockFree
    THEN SendBody(t, LockAcquire(connection_lock, t), c)
    ELSE /\ pc' = [pc EXCEPT ![t] = "sc_wait"]
         /\ connection_lock' = LockAcquire(connection_lock, t)
         /\ Did("step", None, <<>>)
         /\ SetCtl(t, c)
         /\ UNCHANGED <<session, is_running, attempt, conn_retries, opens, todo, iterated>>
         /\ UNCHANGED <<substate, options, aliased, dedup, heard, reported, pending, found>>

\* send_command called by the heartbeat loop, by send_query_command, or by
\* the host directly
CallSendBy(t) == CallSendWith(t, NoCtl)

\* the host calls send_command or send_query_command
CallSendCommand(e) ==
    /\ pc[e] = "idle"
    /\ history # "unloaded"
    /\ CallSendBy(e)
    /\ UNCHANGED <<scan_addr, history, closed>>

\* the lock is handed to a waiting send_command call
SendEnter(t) ==
    /\ pc[t] = "sc_wait"
    /\ Holds(t)
    /\ SendBody(t, connection_lock, IF t \in Ext THEN ctl[t] ELSE NoCtl)
    /\ UNCHANGED <<scan_addr, history, closed>>

\* write_gatt_char returned: send_command returns True, and
\* send_control_command then records the state it has sent
WriteOk(t) ==
    /\ pc[t] = "sc_write"
    /\ LET c == IF t \in Ext THEN ctl[t] ELSE NoCtl
       IN /\ \E nxt \in AfterSend(t) : \E evs \in LoopEvents(t, nxt) :
                /\ pc' = [pc EXCEPT ![t] = nxt]
                /\ Did("write_ok", t, ControlEvents(c) \o evs)
          /\ AfterControl(c)
    /\ SetCtl(t, NoCtl)
    /\ connection_lock' = LockRelease(connection_lock)
    /\ UNCHANGED <<session, is_running, attempt, conn_retries, opens, todo, iterated,
                   scan_addr, history, closed>>

\* The failure handler of send_command, of heartbeat_loop and the body of
\* _on_disconnected: mark disconnected, _stop_heartbeat, start a reconnect
\* task unless one is running.  me is the task running the handler (None for
\* the callback) and nxt is where it goes unless it has cancelled itself.
FailureHandler(me, nxt) ==
    /\ NeedReconnect => HasFree(RcTasks)
    /\ LET K == StopHeartbeatTargets
           r == FreeSlot(RcTasks)
           p1 == Kill(pc, K)
           p2 == IF NeedReconnect THEN [p1 EXCEPT ![r] = "rc_grace"] ELSE p1
       IN /\ connected' = FailureConnected
          /\ heartbeat_task' = IF K # {} THEN None ELSE heartbeat_task
          /\ reconnect_task' = IF NeedReconnect THEN r ELSE reconnect_task
          /\ pc' = IF me = None \/ (me \in K /\ nxt # "done")
                   THEN p2 ELSE [p2 EXCEPT ![me] = nxt]
          /\ connection_lock' =
                IF me # None /\ Holds(me)
                THEN LockCancel(connection_lock, K \cup {me})
                ELSE LockCancel(connection_lock, K)
    /\ Lost
    /\ UNCHANGED <<scan_task, registration, is_running, subdevices, scan_timers,
                   attempt, conn_retries, opens, todo, iterated, scan_addr, closed>>

\* write_gatt_char raised
WriteFail(t) ==
    /\ pc[t] = "sc_write"
    /\ \E nxt \in AfterSend(t) : \E evs \in LoopEvents(t, nxt) :
          /\ FailureHandler(t, nxt)
          /\ Did("write_fail", t, evs)
    /\ SetCtl(t, NoCtl)
    /\ UNCHANGED <<substate, options, aliased, dedup, heard, reported, pending, found>>
    /\ UNCHANGED transport

\* ---- heartbeat loop ----
\* the first run of the loop, or the end of sleep(keep_alive_interval): the
\* loop condition, then the call of send_command
HbLoop(h) ==
    /\ pc[h] \in {"hb_new", "hb_sleep"}
    /\ IF connected /\ is_running
       THEN CallSendBy(h)
       ELSE /\ pc' = [pc EXCEPT ![h] = "done"]
            /\ Step("step", None, <<>>)
            /\ UNCHANGED <<session, connection_lock, is_running, attempt,
                           conn_retries, opens, todo, iterated>>
    /\ UNCHANGED <<scan_addr, history, closed>>

\* client.get_rssi() returned or raised; the signal-strength event is fired
HbRssiDone(h) ==
    /\ pc[h] = "hb_rssi"
    /\ pc' = [pc EXCEPT ![h] = "hb_sleep"]
    /\ \E evs \in LoopEvents(h, "hb_sleep") : Step("step", None, evs)
    /\ UNCHANGED <<session, connection_lock, is_running, attempt, conn_retries,
                   opens, todo, iterated, scan_addr, history, closed>>

\* the host's signal-strength lookup or event bus raised after get_rssi: the
\* `except Exception` handler of heartbeat_loop, then break
HbExcept(h) ==
    /\ pc[h] = "hb_rssi"
    /\ FailureHandler(h, "done")
    /\ Step("hb_except", h, <<>>)
    /\ UNCHANGED transport

\* the event loop runs a cancelled task: CancelledError unwinds it, before
\* anything that became ready after the cancel() is run
Reap(t) ==
    /\ pc[t] = "cancelled"
    /\ pc' = [pc EXCEPT ![t] = "done"]
    /\ last' = <<"step", None>>
    /\ events' = <<>>
    /\ outage' = Outlived
    /\ query_address' = Retired
    /\ UNCHANGED <<session, connection_lock, is_running, attempt, conn_retries,
                   opens, todo, iterated, scan_addr, history, closed, regvars, calc, limit>>

\* ---- persistent reconnect loop ----
\* the end of the 5 s grace period or of the wait min(2 ** attempt, 60): the
\* loop condition, then the call of connect(retries=1)
RcLoop(r) ==
    /\ pc[r] \in {"rc_grace", "rc_sleep"}
    /\ IF ~connected /\ is_running
       THEN CallConnectBy(r, 1)
       ELSE /\ pc' = [pc EXCEPT ![r] = "done"]
            /\ Step("step", None, <<>>)
            /\ KeepLocals
            /\ UNCHANGED <<session, connection_lock, is_running, todo, iterated, scan_addr>>
    /\ UNCHANGED <<history, closed>>

\* ---- mesh scan sweep ----
\* the call_later(10.0, start_scan) timer fires: start_scan
TimerFire ==
    /\ scan_timers > 0
    /\ HasFree(ScanTasks)
    /\ Cardinality({s \in ScanTasks : pc[s] # "done"}) < limit.sweeps
    /\ scan_timers' = scan_timers - 1
    /\ scan_task' = FreeSlot(ScanTasks)
    /\ pc' = [pc EXCEPT ![FreeSlot(ScanTasks)] = "sn_new"]
    /\ scan_addr' = [scan_addr EXCEPT ![FreeSlot(ScanTasks)] = 1]
    /\ Step("step", None, <<>>)
    /\ UNCHANGED <<connected, transport, heartbeat_task, reconnect_task,
                   registration, connection_lock, is_running, subdevices,
                   attempt, conn_retries, opens, todo, iterated, history, closed>>

\* the first address at or after a that is not in the Registry
NextScanAddr(a) ==
    IF \E b \in a..limit.range : b \notin subdevices
    THEN MinOf({b \in a..limit.range : b \notin subdevices})
    ELSE limit.range + 1

\* the first run of async_scan_mesh, or the end of its sleep(1.0): the loop
\* up to the call of the next send_query_command
ScanLoop(s) ==
    /\ pc[s] \in {"sn_new", "sn_sleep"}
    /\ IF connected /\ NextScanAddr(scan_addr[s]) <= limit.range
       THEN /\ CallSendBy(s)
            /\ scan_addr' = [scan_addr EXCEPT ![s] = NextScanAddr(scan_addr[s]) + 1]
       ELSE /\ pc' = [pc EXCEPT ![s] = "done"]
            /\ scan_addr' = [scan_addr EXCEPT ![s] = 0]
            /\ Step("step", None, <<>>)
            /\ UNCHANGED <<session, connection_lock, is_running, attempt,
                           conn_retries, opens, todo, iterated>>
    /\ UNCHANGED <<history, closed>>

\* ---- the environment ----
\* The link drops: client.is_connected turns false and the transport calls
\* the registered _on_disconnected
LinkLoss ==
    /\ is_connected
    /\ is_connected' = FALSE
    /\ IF has_callback /\ connected
       THEN /\ FailureHandler(None, "done")
            /\ Step("on_disconnected", None, DisconnectedEvents)
       ELSE /\ Step(IF has_callback THEN "on_disconnected_noop" ELSE "step", None, <<>>)
            /\ UNCHANGED <<connected, refs, registration, connection_lock,
                           is_running, subdevices, scan_timers, pc, attempt,
                           conn_retries, opens, todo, iterated, scan_addr, history, closed>>
    /\ UNCHANGED <<client, has_callback>>

\* the host shuts down
HostStop ==
    /\ is_running
    /\ is_running' = FALSE
    /\ Step("step", None, <<>>)
    /\ UNCHANGED <<session, connection_lock, pc, attempt, conn_retries, opens,
                   todo, iterated, scan_addr, history, closed>>

Next ==
    \/ \E e \in Ext, r \in RetryArgs : CallConnect(e, r)
    \/ \E e \in Ext : CallDisconnect(e)
    \/ \E e \in Ext : Unload(e)
    \/ \E e \in Ext : CallSendCommand(e)
    \/ \E t \in Ext \cup RcTasks : ConnectEnter(t)
    \/ \E t \in Ext \cup RcTasks : CleanupClosed(t)
    \/ \E t \in Ext \cup RcTasks : OpenRaise(t)
    \/ \E t \in Ext \cup RcTasks : OpenNoConn(t)
    \/ \E t \in Ext \cup RcTasks : BackoffDone(t)
    \/ \E t \in Ext \cup RcTasks : OpenOk(t)
    \/ \E t \in Ext \cup RcTasks : NotifyDone(t)
    \/ \E t \in Ext \cup RcTasks : QueryPace(t)
    \/ \E e \in Ext : DisconnectEnter(e)
    \/ \E e \in Ext : DisconnectClosed(e)
    \/ \E t \in Tasks : SendEnter(t)
    \/ \E t \in Tasks : WriteOk(t)
    \/ \E t \in Tasks : WriteFail(t)
    \/ \E h \in HbTasks : HbLoop(h)
    \/ \E h \in HbTasks : HbRssiDone(h)
    \/ \E h \in HbTasks : HbExcept(h)
    \/ \E r \in RcTasks : RcLoop(r)
    \/ TimerFire
    \/ \E s \in ScanTasks : ScanLoop(s)
    \/ \E t \in Tasks : Reap(t)
    \/ LinkLoss
    \/ HostStop

Spec == Init /\ [][Next]_vars

\* The event loop runs every task that is ready, every sleep and every
\* transport call ends, and a transport open that is tried again and again
\* succeeds in the end.  Nothing obliges the host to call the API, the link
\* to drop or a transport call to fail.
Fairness ==
    /\ WF_vars(\E t \in Tasks : ConnectEnter(t))
    /\ WF_vars(\E t \in Tasks : CleanupClosed(t))
    /\ WF_vars(\E t \in Tasks : BackoffDone(t))
    /\ WF_vars(\E t \in Tasks : NotifyDone(t))
    /\ WF_vars(\E t \in Tasks : QueryPace(t))
    /\ WF_vars(\E t \in Tasks : DisconnectEnter(t))
    /\ WF_vars(\E t \in Tasks : DisconnectClosed(t))
    /\ WF_vars(\E t \in Tasks : SendEnter(t))
    /\ WF_vars(\E t \in Tasks : WriteOk(t))
    /\ WF_vars(\E h \in HbTasks : HbLoop(h))
    /\ WF_vars(\E h \in HbTasks : HbRssiDone(h))
    /\ WF_vars(\E r \in RcTasks : RcLoop(r))
    /\ WF_vars(\E t \in Tasks : Reap(t))
    /\ WF_vars(\E s \in ScanTasks : ScanLoop(s))
    /\ WF_vars(TimerFire)
    /\ SF_vars(\E t \in Tasks : OpenOk(t))

FairSpec == Init /\ [][Next]_vars /\ Fairness

TypeOK ==
    /\ connected \in BOOLEAN
    /\ client \in {"None", "Client"}
    /\ heartbeat_task \in HbTasks \cup {None}
    /\ reconnect_task \in RcTasks \cup {None}
    /\ scan_task \in ScanTasks \cup {None}
    /\ connection_lock.owner \in Tasks \cup {None}
    /\ scan_timers \in 0..limit.timers
    /\ iterated \in {"same", "resized", "detached"}
    /\ outage \subseteq ScanTasks
    /\ query_address \in [QTasks -> {0} \cup Addrs \cup FrameAddrs]

\* ---- the data plane: notifications, discovery, control ----
HEADER == 165
CONTROL_CMD == 33282
BTHOME_PROXY_CMD == 33283

\* data[i]
Byte(f, i) == f[i + 1]

\* data[a:b]
Slice(f, a, b) == SubSeq(f, a + 1, IF b < Len(f) THEN b ELSE Len(f))

\* address = data[1] + (data[2] << 8)
FrameAddress(f) == Byte(f, 1) + Byte(f, 2) * 256

\* cmd = (data[3] << 8) + data[4]
FrameCmd(f) == Byte(f, 3) * 256 + Byte(f, 4)

\* is_on = data[5] != 0
FrameOn(f) == Byte(f, 5) # 0

\* brightness = data[6]
FrameBrightness(f) == Byte(f, 6)

\* a handler that checks the length only
Malformed_LengthOnly(f) == Len(f) < 7

\* `if len(data) < 7 or data[0] != HEADER: return`
Malformed(f) == Len(f) < 7 \/ Byte(f, 0) # HEADER

\* a handler that knows no proxy frames
IsProxy_Never(f) == FALSE

\* `if cmd == BTHOME_PROXY_CMD`
IsProxy(f) == FrameCmd(f) = BTHOME_PROXY_CMD

\* rssi = data[5], read as a signed byte
ProxyRssi(f) == IF Byte(f, 5) > 127 THEN Byte(f, 5) - 256 ELSE Byte(f, 5)

\* mac = ":".join(f"{b:02X}" for b in data[6:12]): the upper-case hex pairs
UpperHexChars == <<"0", "1", "2", "3", "4", "5", "6", "7", "8", "9", "A", "B", "C", "D", "E", "F">>

ProxyMac(f) ==
    LET b == Slice(f, 6, 12)
    IN [i \in 1..Len(b) |-> <<UpperHexChars[(b[i] \div 16) + 1], UpperHexChars[(b[i] % 16) + 1]>>]

\* adv_payload = data[13:13 + adv_len] with adv_len = data[12]
ProxyPayload(f) == Slice(f, 13, 13 + Byte(f, 12))

\* hash(bytes(adv_payload)): equal payloads have equal hashes; a collision
\* of two different payloads is left out
PayloadHash(p) == <<"hash", p>>

\* the advertisement handed on for a proxy frame
Advertisement(f) == [address |-> ProxyMac(f), rssi |-> ProxyRssi(f), payload |-> ProxyPayload(f)]

\* ---- bounds of the data plane ----
MaxPending == 2
MaxFound == 2

\* the frames the gateway sends in the model: state reports of addresses 1
\* and 258, proxied advertisements, proxy frames cut short, and frames
\* that are too short or do not start with the header
StateFrames ==
    {<<HEADER, 1, 0, 130, 1, 2, 200>>,
     <<HEADER, 2, 1, 130, 1, 0, 0>>,
     <<HEADER, 2, 1, 130, 2, 2, 200, 0>>}
MacBytes == <<170, 187, 204, 221, 238, 1>>
OtherMacBytes == <<170, 187, 204, 221, 238, 2>>
ProxyFrames ==
    {<<HEADER, 2, 1, 130, 3, 226>> \o MacBytes \o <<1, 64>>,
     <<HEADER, 2, 1, 130, 3, 226>> \o MacBytes \o <<2, 64, 0>>,
     <<HEADER, 0, 0, 130, 3, 30>> \o MacBytes \o <<4, 64, 0>>,
     <<HEADER, 2, 1, 130, 3, 226>> \o OtherMacBytes \o <<1, 64>>}
ShortProxyFrames ==
    {<<HEADER, 2, 1, 130, 3, 1, 128>>,
     <<HEADER, 2, 1, 130, 3, 226>> \o MacBytes}
BadFrames ==
    {<<>>, <<HEADER>>, <<HEADER, 2, 1, 130, 1, 1>>,
     <<164, 2, 1, 130, 1, 1, 128>>,
     <<90, 2, 1, 130, 3, 226>> \o MacBytes \o <<1, 64>>}
Frames == StateFrames \cup ProxyFrames \cup ShortProxyFrames \cup BadFrames

\* arguments of the host's send_control_command calls
CtlAddrs == {1}
CtlBrightness == {0, 200}

\* whether the host's Bluetooth manager takes the advertisement in
\* _inject_to_bluetooth_manager
ManagerSinks == {TRUE, FALSE}

\* the members of a finite set of numbers in ascending order
RECURSIVE Sorted(_)
Sorted(S) == IF S = {} THEN <<>> ELSE <<MinOf(S)>> \o Sorted(S \ {MinOf(S)})

\* one more new_subdevice_found for each address of the sequence q
RECURSIVE Count(_, _)
Count(fnd, q) ==
    IF q = <<>> THEN fnd
    ELSE Count([fnd EXCEPT ![Head(q)] = IF @ < MaxFound THEN @ + 1 ELSE @], Tail(q))

\* ---- async_update_options, the update listener of the config entry ----
\* a listener that starts the Registry afresh
ListenerRegistry_Afresh(opt) == [a \in {} |-> opt[Str(a)]]

\* the Registry it builds from the options opt: subdevices[int(k)] = v
ListenerRegistry(opt) ==
    [a \in {IntOf(k) : k \in DOMAIN opt} |-> opt[CHOOSE k \in DOMAIN opt : IntOf(k) = a]]

\* the addresses it announces: those of the options that the Registry old lacks
ListenerNew(old, opt) == Sorted({IntOf(k) : k \in DOMAIN opt} \ old)

ListenerEvents(old, opt) ==
    [i \in 1..Len(ListenerNew(old, opt)) |->
        NewSubdeviceFound(ListenerNew(old, opt)[i], ListenerRegistry(opt)[ListenerNew(old, opt)[i]])]

\* connect's initial-query loop sleeps between two addresses
Pacing == \E t \in Tasks : pc[t] = "cn_query"

\* what becomes of the dict that loop iterates when the Registry changes:
\* an entry added in place resizes it, `controller.subdevices = subdevices`
\* leaves it behind with the size it has
Iterated(change) ==
    IF Pacing /\ iterated = "same" THEN change ELSE iterated

\* async_update_options run by the event loop
UpdateOptions ==
    /\ iterated' = Iterated("detached")
    /\ substate' = ListenerRegistry(options)
    /\ subdevices' = DOMAIN ListenerRegistry(options)
    /\ aliased' = DOMAIN ListenerRegistry(options)
    /\ found' = Count(found, ListenerNew(subdevices, options))
    /\ pending' = Tail(pending)
    /\ Did("update_options", None, ListenerEvents(subdevices, options))
    /\ UNCHANGED options

\* a discovery that registers the address again
AddressKnown_Never(address) == FALSE

\* `if address in self.subdevices: return` of _async_add_discovered_subdevice
AddressKnown(address) == address \in subdevices

\* _async_add_discovered_subdevice(address, is_on, brightness) run by the
\* event loop: the new entry, its event, the options with the entry added,
\* and async_update_entry, which starts the update listener as a task
AddDiscovered(address, is_on, brightness) ==
    IF AddressKnown(address)
    THEN /\ pending' = Tail(pending)
         /\ Did("add_known", None, <<>>)
         /\ UNCHANGED <<subdevices, substate, options, aliased, found, iterated>>
    ELSE LET e == Entry(SubdeviceName(address), is_on, brightness)
         IN /\ substate' = Put(substate, address, e)
            /\ subdevices' = subdevices \cup {address}
            /\ options' = Put(options, Str(address), e)
            /\ found' = Count(found, <<address>>)
            /\ pending' = Append(Tail(pending), <<"options">>)
            /\ iterated' = Iterated("resized")
            /\ Did("add_discovered", None, <<NewSubdeviceFound(address, e)>>)
            /\ UNCHANGED aliased

\* a dedup table that does not tell the originators apart
DedupHit_AnyMac(mac, h) == \E m \in DOMAIN dedup : dedup[m] = h

\* `if self._bthome_dedup.get(mac) == payload_hash: return`
DedupHit(mac, h) == mac \in DOMAIN dedup /\ dedup[mac] = h

\* what the delivery step of _handle_bthome_proxy_packet hands on for the
\* frame f: _inject_to_bluetooth_manager first, which delivers when the host
\* has a manager with an injection method (mgr), then the scanner's
\* inject_proxy_advertisement when self.scanner is set
Deliveries(f, mgr) ==
    (IF mgr THEN <<<<"manager_advertisement", Advertisement(f)>>>> ELSE <<>>)
    \o (IF scanner THEN <<<<"scanner_advertisement", Advertisement(f)>>>> ELSE <<>>)

\* _handle_bthome_proxy_packet: too short, a repeat of the last payload of
\* that MAC, or else recorded and handed to the Bluetooth manager and to
\* the scanner
HandleProxy(f) ==
    IF Len(f) < 13
    THEN Did("proxy_short", None, <<>>) /\ UNCHANGED <<dedup, heard>>
    ELSE LET mac == ProxyMac(f)
             h == PayloadHash(ProxyPayload(f))
         IN /\ heard' = Put(heard, Slice(f, 6, 12), ProxyPayload(f))
            /\ IF DedupHit(mac, h)
               THEN Did("proxy_repeat", None, <<>>) /\ UNCHANGED dedup
               ELSE /\ dedup' = Put(dedup, mac, h)
                    /\ \E mgr \in ManagerSinks : Did("proxy", None, Deliveries(f, mgr))

\* _notification_handler(sender, data) for the frame f
Notify(f) ==
    /\ is_connected
    /\ IF Malformed(f)
       THEN Did("notify_drop", None, <<>>) /\ UNCHANGED datavars
       ELSE IF IsProxy(f)
       THEN /\ HandleProxy(f)
            /\ UNCHANGED <<subdevices, substate, options, aliased, reported, pending, found>>
       ELSE IF FrameAddress(f) \notin subdevices
       THEN /\ Len(pending) < MaxPending
            /\ pending' = Append(pending, <<"add", FrameAddress(f), FrameOn(f), FrameBrightness(f)>>)
            /\ Did("notify_new", None, <<>>)
            /\ reported' = Put(reported, FrameAddress(f), <<FrameOn(f), FrameBrightness(f)>>)
            /\ UNCHANGED <<subdevices, substate, options, aliased, dedup, heard, found>>
       ELSE /\ substate' = SetState(substate, FrameAddress(f), FrameOn(f), FrameBrightness(f))
            /\ options' = SetStateInOptions(options, FrameAddress(f), FrameOn(f), FrameBrightness(f))
            /\ Did("notify_update", None,
                   <<SubdeviceUpdated(FrameAddress(f), FrameOn(f), FrameBrightness(f))>>)
            /\ reported' = Put(reported, FrameAddress(f), <<FrameOn(f), FrameBrightness(f)>>)
            /\ UNCHANGED <<subdevices, aliased, dedup, heard, pending, found>>
    /\ UNCHANGED <<connected, transport, refs, registration, connection_lock,
                   is_running, scan_timers, pc, attempt, conn_retries, todo, iterated,
                   scan_addr, opens, history, closed, ctl>>

\* The event loop runs the oldest task of the data plane.  A host whose
\* async_create_task starts coroutines eagerly runs each of them inside the
\* call that creates it: that is the run in which this step follows at once.
RunPending ==
    /\ pending # <<>>
    /\ LET job == Head(pending)
       IN IF job[1] = "add"
          THEN AddDiscovered(job[2], job[3], job[4])
          ELSE UpdateOptions
    /\ UNCHANGED <<connected, transport, refs, registration, connection_lock,
                   is_running, scan_timers, pc, attempt, conn_retries, todo,
                   scan_addr, opens, history, closed, ctl, dedup, heard,
                   reported>>

\* a frame with the address bytes the other way round
ControlFrame_BigEndian(address, is_on, brightness) ==
    <<HEADER, (address \div 256) % 256, address % 256,
      (CONTROL_CMD \div 256) % 256, CONTROL_CMD % 256,
      IF is_on THEN 1 ELSE 0, NormalizedBrightness(brightness)>>

\* the frame send_control_command builds
ControlFrame(address, is_on, brightness) ==
    <<HEADER, address % 256, (address \div 256) % 256,
      (CONTROL_CMD \div 256) % 256, CONTROL_CMD % 256,
      IF is_on THEN 1 ELSE 0, NormalizedBrightness(brightness)>>

\* the host calls send_control_command(address, is_on, brightness)
ControlCall(e, address, is_on, brightness) ==
    /\ pc[e] = "idle"
    /\ history # "unloaded"
    /\ CallSendWith(e, [address |-> address, is_on |-> is_on, brightness |-> brightness,
                        frame |-> ControlFrame(address, is_on, brightness)])
    /\ UNCHANGED <<scan_addr, history, closed>>

\* A Session that is Connected and at rest: the host's connect has returned,
\* the initial queries and the scan sweep are over (self._scan_task still
\* refers to the finished sweep) and the heartbeat loop sleeps between two
\* frames; sc tells whether the registration as a scan source has succeeded
RegAt(sc) ==
    /\ connected = TRUE
    /\ client = "Client"
    /\ is_connected = TRUE
    /\ has_callback = TRUE
    /\ heartbeat_task = <<"hb", 1>>
    /\ reconnect_task = None
    /\ scan_task = <<"scan", 1>>
    /\ scanner = sc
    /\ unregister_scanner = sc
    /\ connection_lock = [owner |-> None, waiters |-> <<>>]
    /\ is_running = TRUE
    /\ subdevices \in SUBSET Addrs
    /\ scan_timers = 0
    /\ pc = [t \in Tasks |-> IF t \in Ext THEN "idle"
                             ELSE IF t = <<"hb", 1>> THEN "hb_sleep" ELSE "done"]
    /\ attempt = [t \in Tasks |-> 0]
    /\ conn_retries = [t \in Tasks |-> 0]
    /\ todo = {}
    /\ iterated = "same"
    /\ scan_addr = [t \in ScanTasks |-> 0]
    /\ opens = [t \in Tasks |-> 0]
    /\ history = "up"
    /\ closed = FALSE
    /\ last = <<"init", None>>
    /\ events = <<>>
    /\ substate = [a \in subdevices |-> Entry(SubdeviceName(a), FALSE, 0)]
    /\ options = [k \in {Str(a) : a \in subdevices} |-> substate[IntOf(k)]]
    /\ aliased = subdevices
    /\ dedup = [m \in {} |-> <<>>]
    /\ heard = [m \in {} |-> <<>>]
    /\ reported = [a \in {} |-> <<>>]
    /\ pending = <<>>
    /\ ctl = [e \in Ext |-> NoCtl]
    /\ found = [a \in FrameAddrs |-> 0]
    /\ calc = NoCalc
    /\ limit = [timers |-> MaxTimers, sweeps |-> NumScan, range |-> ScanRange]
    /\ outage = {}
    /\ query_address = [q \in QTasks |-> 0]

\* the Session whose registration as a scan source has succeeded
RegInit == RegAt(TRUE)

RegNext ==
    \/ \E f \in Frames : Notify(f)
    \/ RunPending
    \/ \E e \in Ext, a \in CtlAddrs, on \in BOOLEAN, b \in CtlBrightness : ControlCall(e, a, on, b)
    \/ \E t \in Tasks : WriteOk(t)
    \/ \E t \in Tasks : WriteFail(t)
    \/ \E t \in Tasks : Reap(t)

\* the data plane of a Session that is Connected and at rest
RegistrySpec == RegInit /\ [][RegNext]_vars

\* heartbeat_cmd of heartbeat_loop
HeartbeatFrame == <<HEADER, 0, 0, 0, 0, 0, 0>>

\* ---- the Session that only listens ----
\* A connected Session at rest to which the gateway sends frames, its echo
\* of a heartbeat among them, while the host sends no command: the
\* notification handler and the tasks it spawns
InboundNext ==
    \/ \E f \in Frames : Notify(f)
    \/ Notify(HeartbeatFrame)
    \/ RunPending

\* the registration as a scan source has succeeded, or it has raised before
\* self.scanner was set
InboundInit == \E sc \in BOOLEAN : RegAt(sc)

InboundSpec == InboundInit /\ [][InboundNext]_vars

\* ---- the Session with its sweeps and its discoveries ----
\* the state reports the gateway sends while sweeps run
MeshFrames == {<<HEADER, 1, 0, 130, 1, 2, 200>>}

\* A controller as constructed, with an empty Registry, followed one timer,
\* one sweep and one address further than in Init
MeshInit ==
    /\ connected = FALSE
    /\ client = "None"
    /\ is_connected = FALSE
    /\ has_callback = FALSE
    /\ heartbeat_task = None
    /\ reconnect_task = None
    /\ scan_task = None
    /\ scanner = FALSE
    /\ unregister_scanner = FALSE
    /\ connection_lock = [owner |-> None, waiters |-> <<>>]
    /\ is_running = TRUE
    /\ subdevices = {}
    /\ scan_timers = 0
    /\ pc = [t \in Tasks |-> IF t \in Ext THEN "idle" ELSE "done"]
    /\ attempt = [t \in Tasks |-> 0]
    /\ conn_retries = [t \in Tasks |-> 0]
    /\ todo = {}
    /\ iterated = "same"
    /\ scan_addr = [t \in ScanTasks |-> 0]
    /\ opens = [t \in Tasks |-> 0]
    /\ history = "fresh"
    /\ closed = FALSE
    /\ last = <<"init", None>>
    /\ events = <<>>
    /\ substate = [a \in subdevices |-> Entry(SubdeviceName(a), FALSE, 0)]
    /\ options = [k \in {Str(a) : a \in subdevices} |-> substate[IntOf(k)]]
    /\ aliased = subdevices
    /\ dedup = [m \in {} |-> <<>>]
    /\ heard = [m \in {} |-> <<>>]
    /\ reported = [a \in {} |-> <<>>]
    /\ pending = <<>>
    /\ ctl = [e \in Ext |-> NoCtl]
    /\ found = [a \in FrameAddrs |-> 0]
    /\ calc = NoCalc
    /\ limit = [timers |-> MaxTimers + 1, sweeps |-> NumScan + 1, range |-> ScanRange + 1]
    /\ outage = {}
    /\ query_address = [q \in QTasks |-> 0]

MeshNext ==
    \/ \E e \in Ext, r \in RetryArgs : CallConnect(e, r)
    \/ \E e \in Ext : CallDisconnect(e)
    \/ \E t \in Ext \cup RcTasks : CleanupClosed(t)
    \/ \E t \in Ext \cup RcTasks : OpenOk(t)
    \/ \E t \in Ext \cup RcTasks : NotifyDone(t)
    \/ \E t \in Ext \cup RcTasks : QueryPace(t)
    \/ \E e \in Ext : DisconnectEnter(e)
    \/ \E e \in Ext : DisconnectClosed(e)
    \/ \E t \in Tasks : SendEnter(t)
    \/ \E t \in Tasks : WriteOk(t)
    \/ \E t \in Tasks : WriteFail(t)
    \/ TimerFire
    \/ \E s \in ScanTasks : ScanLoop(s)
    \/ \E t \in Tasks : Reap(t)
    \/ \E f \in MeshFrames : Notify(f)
    \/ \E e \in Ext : ControlCall(e, 1, FALSE, 0)
    \/ RunPending

\* Connects, disconnects, failing writes, timers, sweeps, discoveries and
\* the switching off of address 1 by one host; the heartbeat and reconnect
\* loops, once started, are not run
MeshSpec == MeshInit /\ [][MeshNext]_vars

\* ---- the Session that connects while the mesh reports ----
\* the state report of a light that the Registry does not hold
PaceFrames == {<<HEADER, 2, 1, 130, 1, 0, 0>>}

\* A controller as constructed whose host calls connect while the gateway
\* reports a light: the attempts of connect with their initial queries, the
\* registration of the light and the update listener; every transport call
\* succeeds, and the heartbeat loops, once started, are not run
PaceNext ==
    \/ \E e \in Ext, r \in RetryArgs : CallConnect(e, r)
    \/ \E t \in Ext : CleanupClosed(t)
    \/ \E t \in Ext : OpenOk(t)
    \/ \E t \in Ext : NotifyDone(t)
    \/ \E t \in Ext : QueryPace(t)
    \/ \E t \in Ext : QueryRaise(t)
    \/ \E t \in Ext : BackoffDone(t)
    \/ \E t \in Tasks : SendEnter(t)
    \/ \E t \in Tasks : WriteOk(t)
    \/ \E t \in Tasks : Reap(t)
    \/ \E f \in PaceFrames : Notify(f)
    \/ RunPending

PaceSpec == Init /\ [][PaceNext]_vars

\* ---- the numbers of the Session: waits, timeouts and frames ----
\* The loops above leave time out.  Here the persistent-reconnect loop and
\* the retry loop of connect are followed with their counters and the
\* durations they compute, and the encoders with the frames they build.
base_timeout == 15
QUERY_CMD == 33281

\* ---- bounds ----
MaxAttempt == 11     \* iterations of the persistent-reconnect loop that are followed
MaxRetries == 7      \* the largest retries argument of a connect call

Min(a, b) == IF a <= b THEN a ELSE b

\* timeout = min(self.base_timeout + (attempt * 5), 60.0)
ReconnectTimeout(k) == Min(base_timeout + (k * 5), 60)

\* a wait that is not capped
ReconnectWait_Uncapped(k) == 2 ^ k

\* wait_time = min(2 ** attempt, 60)
ReconnectWait(k) == Min(2 ^ k, 60)

\* a wait counted from the attempt index
ConnectWait_FromZero(a) == Min(5 * a, 30)

\* wait_time = min(5 * (attempt + 1), 30), attempt being the index from 0
ConnectWait(a) == Min(5 * (a + 1), 30)

\* conn_timeout = timeout or self.base_timeout
ConnTimeout(timeout) == IF timeout # 0 THEN timeout ELSE base_timeout

\* the frame send_query_command builds
QueryFrame(address) ==
    <<HEADER, address % 256, (address \div 256) % 256,
      (QUERY_CMD \div 256) % 256, QUERY_CMD % 256, 0, 0>>

\* the arguments the encoders are tried with
CalcAddrs == {0, 1, 255, 256, 258, 65535}
CalcBrightness == {0, 1, 200, 255}
CalcTimeouts == {0, 20}

allbutcalc == <<connected, client, is_connected, has_callback, heartbeat_task,
                reconnect_task, scan_task, scanner, unregister_scanner,
                connection_lock, is_running, subdevices, scan_timers, pc, attempt,
                conn_retries, todo, iterated, scan_addr, opens, history, closed, last,
                events, substate, options, aliased, dedup, heard, reported, pending, ctl, found,
                limit, query_address, outage>>

\* nothing is being followed, or what was has come to its end
CalcAtRest == calc.at \in {"none", "returned", "failed", "written"}

Follow(c) == calc' = c /\ UNCHANGED allbutcalc

\* _persistent_reconnect is started: attempt = 0, then the 5 s grace period
ReconnectStart ==
    /\ CalcAtRest
    /\ Follow([NoCalc EXCEPT !.of = "persistent_reconnect", !.at = "grace"])

\* the loop condition holds after the grace period or a wait: attempt += 1,
\* the timeout and the wait are computed, connect(timeout, retries=1) is called
ReconnectIterate ==
    /\ calc.of = "persistent_reconnect"
    /\ calc.at \in {"grace", "sleep"}
    /\ calc.attempt < MaxAttempt
    /\ Follow([calc EXCEPT !.at = "connect",
                           !.attempt = @ + 1,
                           !.retries = 1,
                           !.timeout = ReconnectTimeout(calc.attempt + 1),
                           !.wait_time = ReconnectWait(calc.attempt + 1)])

\* the loop condition fails (connected by now, or the host stops), or
\* connect returned True: the loop is over
ReconnectReturn ==
    /\ calc.of = "persistent_reconnect"
    /\ calc.at \in {"grace", "sleep", "connect"}
    /\ Follow([calc EXCEPT !.at = "returned"])

\* connect returned False: await asyncio.sleep(wait_time)
ReconnectSleep ==
    /\ calc.of = "persistent_reconnect"
    /\ calc.at = "connect"
    /\ Follow([calc EXCEPT !.at = "sleep"])

\* connect(timeout, retries) passes its check: the first attempt opens the
\* transport with conn_timeout
ConnectStart(timeout, retries) ==
    /\ CalcAtRest
    /\ Follow([NoCalc EXCEPT !.of = "connect", !.at = "open",
                             !.retries = ConnRetries(retries),
                             !.timeout = ConnTimeout(timeout)])

\* the attempt raised: the wait before the next one, or the end of the loop
ConnectRaise ==
    /\ calc.of = "connect"
    /\ calc.at = "open"
    /\ Follow(IF calc.attempt < calc.retries - 1
              THEN [calc EXCEPT !.at = "backoff", !.wait_time = ConnectWait(calc.attempt)]
              ELSE [calc EXCEPT !.at = "failed"])

\* client.connect returned without a link: the next attempt at once
ConnectNoLink ==
    /\ calc.of = "connect"
    /\ calc.at = "open"
    /\ Follow(IF calc.attempt < calc.retries - 1
              THEN [calc EXCEPT !.attempt = @ + 1]
              ELSE [calc EXCEPT !.at = "failed"])

\* the wait is over: the next attempt
ConnectBackoffOver ==
    /\ calc.of = "connect"
    /\ calc.at = "backoff"
    /\ Follow([calc EXCEPT !.at = "open", !.attempt = @ + 1])

\* the attempt succeeded: return True
ConnectReturn ==
    /\ calc.of = "connect"
    /\ calc.at = "open"
    /\ Follow([calc EXCEPT !.at = "returned"])

\* send_control_command, send_query_command and the heartbeat loop hand
\* their frame to send_command, which writes it as it is
EncodeControl(address, is_on, brightness) ==
    /\ CalcAtRest
    /\ Follow([NoCalc EXCEPT !.of = "send_control_command", !.at = "written",
                             !.args = <<address, is_on, brightness>>,
                             !.frame = ControlFrame(address, is_on, brightness)])

EncodeQuery(address) ==
    /\ CalcAtRest
    /\ Follow([NoCalc EXCEPT !.of = "send_query_command", !.at = "written",
                             !.args = <<address>>,
                             !.frame = QueryFrame(address)])

EncodeHeartbeat ==
    /\ CalcAtRest
    /\ Follow([NoCalc EXCEPT !.of = "heartbeat_loop", !.at = "written",
                             !.frame = HeartbeatFrame])

CalcNext ==
    \/ ReconnectStart
    \/ ReconnectIterate
    \/ ReconnectReturn
    \/ ReconnectSleep
    \/ \E timeout \in CalcTimeouts, retries \in 0..MaxRetries : ConnectStart(timeout, retries)
    \/ ConnectRaise
    \/ ConnectNoLink
    \/ ConnectBackoffOver
    \/ ConnectReturn
    \/ \E a \in CalcAddrs, on \in BOOLEAN, b \in CalcBrightness : EncodeControl(a, on, b)
    \/ \E a \in CalcAddrs : EncodeQuery(a)
    \/ EncodeHeartbeat

\* the loops and encoders of a controller as constructed, with their numbers
CalcSpec == Init /\ [][CalcNext]_vars

\* ---- vocabulary of the claims ----
\* a transport operation of task t is in progress: client.disconnect,
\* client.connect, start_notify, write_gatt_char, get_rssi
TransportPcs == {"cn_close", "cn_open", "cn_notify", "dc_close", "sc_write", "hb_rssi"}

\* the task is inside the `async with self._connection_lock` block of
\* connect, disconnect or send_command
BodyPcs == {"cn_close", "cn_open", "cn_notify", "cn_query", "cn_backoff", "dc_close", "sc_write"}

\* the task has called connect, disconnect or send_command and waits for the lock
WaitPcs == {"cn_wait", "dc_wait", "sc_wait"}

ReconnectsLive == LiveTasks(RcTasks)
HeartbeatsLive == LiveTasks(HbTasks)
ScansLive == LiveTasks(ScanTasks)
ConnectInFlight == \E t \in Tasks : InConnect(t)

\* C1: when the write of a heartbeat frame raises, then in that same run of
\* the heartbeat task the Session is Disconnected, that heartbeat loop has
\* ended (it sends no further frame) and exactly one reconnect task is live.
C1_HeartbeatWriteFailure ==
    \A h \in HbTasks :
        last = <<"write_fail", h>> =>
            /\ ~connected
            /\ pc[h] \in {"done", "cancelled"}
            /\ HeartbeatsLive = {}
            /\ Cardinality(ReconnectsLive) = 1

C1_Witness == \E h \in HbTasks : last = <<"write_fail", h>>

\* C2: at most one persistent-reconnect task is live, whatever failures,
\* callbacks, connects and disconnects interleave.
C2_OneReconnectTask == Cardinality(ReconnectsLive) <= 1

\* the disconnect callback ran while a reconnect task was in the middle of
\* its connect call, and still only that one task is live
C2_Witness ==
    /\ last = <<"on_disconnected", None>>
    /\ \E r \in RcTasks : pc[r] = "cn_query"
    /\ Cardinality(ReconnectsLive) = 1

\* C3: after a Session that was Connected has lost its connection
\* unexpectedly, while the host runs and has called neither disconnect() nor
\* connect() anew, the Session is never Disconnected with neither a
\* reconnect task live nor a connect call in flight.
C3_ReconnectingNotTerminal ==
    (history = "lost" /\ is_running /\ ~connected)
        => (ReconnectsLive # {} \/ ConnectInFlight)

\* C4: under fair scheduling of the event loop, with transport opens that
\* eventually succeed, a Session that has lost its connection unexpectedly
\* becomes Connected again, unless the host shuts down or steps in with
\* disconnect(), connect() or an unload of the entry.
C4_SelfHealing ==
    (history = "lost" /\ ~connected)
        ~> (connected \/ ~is_running \/ history \in {"user", "unloaded"})

\* C5: connected = true implies a non-null client.
C5_ConnectedHasClient == connected => client # "None"

C5_Witness == connected /\ client = "Client" /\ is_connected /\ has_callback

\* C6: no two transport operations of the Session are in progress at once.
C6_OneTransportOperation == Cardinality({t \in Tasks : pc[t] \in TransportPcs}) <= 1

\* C7: while a connect call is past the lock (attempting, pacing or backing
\* off) it holds the lock, and every other connect, disconnect or
\* send_command call is still waiting for the lock: none of them is inside
\* its locked block, where alone they touch the transport or the Session.
C7_ConnectExclusive ==
    \A t \in Tasks :
        (InConnect(t) /\ pc[t] # "cn_wait") =>
            /\ Holds(t)
            /\ \A u \in Tasks \ {t} : pc[u] \notin BodyPcs

\* a connect call sits in a backoff wait while another call waits for the lock
C7_Witness ==
    \E t \in Tasks, u \in Tasks :
        /\ pc[t] = "cn_backoff"
        /\ pc[u] \in WaitPcs
        /\ \E i \in DOMAIN connection_lock.waiters : connection_lock.waiters[i] = u

\* task t passes the idempotence check of connect in this step: it had called
\* connect (or calls it now, the lock being free) and either returns at the
\* check or starts its first attempt
PassesConnectCheck(t) ==
    /\ pc[t] \in {"idle", "cn_wait", "rc_grace", "rc_sleep"}
    /\ pc'[t] \in {"cn_close", "cn_open"} \/ last' = <<"connect_idem", t>>

C9_ConnectExhausted ==
    /\ \A t \in Tasks : InConnect(t) => opens[t] <= conn_retries[t]
    /\ \A t \in Tasks :
          last = <<"connect_fail", t>> =>
              /\ ~connected
              /\ HeartbeatsLive = {}
              /\ ScansLive = {}
              /\ ~unregister_scanner

\* C10: once disconnect() has returned and until connect is called again,
\* the Session is Disconnected with no client and no scan-source
\* registration, and no heartbeat, reconnect or scan task is live.
C10_DisconnectIsFinal ==
    closed =>
        /\ ~connected
        /\ client = "None"
        /\ ~unregister_scanner
        /\ HeartbeatsLive = {}
        /\ ReconnectsLive = {}
        /\ ScansLive = {}

\* C11: once async_unload_entry has run and the host's calls have returned,
\* whatever the state it found (Connected, or Disconnected with a reconnect
\* loop pending), no heartbeat, reconnect or scan task is live and no task
\* is inside connect, which alone opens the transport.
C11_UnloadStopsEverything ==
    (history = "unloaded" /\ \A e \in Ext : pc[e] = "idle")
        => /\ HeartbeatsLive = {}
           /\ ReconnectsLive = {}
           /\ ScansLive = {}
           /\ ~(\E t \in Tasks : InConnect(t))

\* C12: when _cleanup_client has closed and released a transport handle
\* (in connect or in disconnect), every heartbeat and reconnect task that
\* was cancelled has terminated: none is still waiting to be unwound while
\* the Session goes on.
C12_CancelledTerminatedBeforeRelease ==
    [][(client # "None" /\ last'[1] \in {"cleanup_done", "disconnect_ret"})
          => \A t \in HbTasks \cup RcTasks : pc'[t] # "cancelled"]_vars

\* the transport invokes _on_disconnected: the link of a handle that has the
\* callback registered goes down
CallbackStep == has_callback /\ is_connected /\ ~is_connected' /\ has_callback'

\* C13: _on_disconnected on a Connected Session marks it Disconnected, fires
\* exactly one availability_changed{connected: false}, leaves no heartbeat
\* task live and leaves a reconnect task live; on a Session that is not
\* Connected it changes nothing, fires nothing and starts no task.
C13_OnDisconnected ==
    [][CallbackStep =>
          IF connected
          THEN /\ ~connected'
               /\ events' = <<AvailabilityChanged(FALSE)>>
               /\ HeartbeatsLive' = {}
               /\ ReconnectsLive' # {}
          ELSE /\ events' = <<>>
               /\ UNCHANGED <<connected, client, refs, registration, pc,
                              connection_lock, subdevices, scan_timers>>]_vars

C13_Witness ==
    /\ last = <<"on_disconnected", None>>
    /\ ~connected
    /\ events = <<AvailabilityChanged(FALSE)>>
    /\ ReconnectsLive # {}

\* C14: every step that takes a Connected Session to Disconnected by a
\* failure (a write that raised in send_command, an exception in the
\* heartbeat loop, the disconnected callback) fires
\* availability_changed{connected: false}.
C14_FailureIsAnnounced ==
    [][(connected /\ ~connected'
          /\ last'[1] \in {"write_fail", "hb_except", "on_disconnected"})
          => \E i \in DOMAIN events' : events'[i] = AvailabilityChanged(FALSE)]_vars

\* task t's send_command evaluates its connected check in this step: it
\* returns False at once or goes on to the write
SendCheckBy(t) ==
    \/ last' = <<"send_noop", t>>
    \/ pc[t] # "sc_write" /\ pc'[t] = "sc_write"

\* C15: a send_command that finds the Session not connected (connected
\* false, no client, or the client's link down) returns False, starts no
\* write, changes nothing of the Session and fires no event (the step's
\* only possible event is the heartbeat loop's own rssi_updated, fired
\* after the call has returned).
C15_SendWhileDisconnected ==
    [][\A t \in Tasks :
          ((~connected \/ client = "None" \/ ~is_connected) /\ SendCheckBy(t))
             => /\ last' = <<"send_noop", t>>
                /\ pc'[t] \in AfterSend(t) \cup {"cancelled"}
                /\ \A u \in Tasks : pc'[u] # "sc_write"
                /\ \A i \in DOMAIN events' : events'[i] = RssiUpdated
                /\ UNCHANGED <<connected, client, is_connected, has_callback,
                               refs, registration, subdevices, scan_timers>>]_vars

C15_Witness ==
    /\ last[1] = "send_noop"
    /\ last[2] \in Ext
    /\ ~connected
    /\ pc[last[2]] = "idle"

\* C16: a write that raises inside send_command is not propagated: the call
\* returns to its caller (a heartbeat loop it has stopped is cancelled), the
\* Session is Disconnected, no heartbeat task is live and a reconnect task is.
C16_WriteFailureContained ==
    \A t \in Tasks :
        last = <<"write_fail", t>> =>
            /\ ~connected
            /\ HeartbeatsLive = {}
            /\ ReconnectsLive # {}
            /\ pc[t] \in {"idle", "done", "sn_sleep", "hb_rssi", "hb_sleep", "cancelled"}
            /\ t \in Ext => pc[t] = "idle"
            /\ ~Holds(t)

C16_Witness ==
    /\ last[1] = "write_fail"
    /\ last[2] \in Ext
    /\ pc[last[2]] = "idle"
    /\ ReconnectsLive # {}

\* C17: when a send_control_command for a known address succeeds, the
\* Registry holds the {on, brightness} of the call for that address right
\* after the call, and the step has fired exactly one subdevice_updated
\* with that state; no notification is involved.
C17_ControlRoundTrip ==
    [][\A e \in Ext :
          (pc[e] = "sc_write" /\ ctl[e] # NoCtl /\ last' = <<"write_ok", e>>
              /\ ctl[e].address \in DOMAIN substate)
          => /\ pc'[e] = "idle"
             /\ ctl[e].address \in DOMAIN substate'
             /\ substate'[ctl[e].address].on = ctl[e].is_on
             /\ substate'[ctl[e].address].brightness = ctl[e].brightness
             /\ events' = <<<<"subdevice_updated",
                              [address |-> ctl[e].address, on |-> ctl[e].is_on,
                               brightness |-> ctl[e].brightness]>>>>]_vars

C17_Witness ==
    /\ last[1] = "write_ok"
    /\ last[2] \in Ext
    /\ 1 \in DOMAIN substate
    /\ substate[1].on
    /\ substate[1].brightness = 200
    /\ events = <<<<"subdevice_updated", [address |-> 1, on |-> TRUE, brightness |-> 200]>>>>

\* the positions in evs of the new_subdevice_found events for address a
FoundEvents(evs, a) ==
    {i \in DOMAIN evs : evs[i][1] = "new_subdevice_found" /\ evs[i][2].address = a}

\* the number a string of lower-case hexadecimal digits denotes
HexDigitValue(c) ==
    CASE c = "0" -> 0 [] c = "1" -> 1 [] c = "2" -> 2 [] c = "3" -> 3
      [] c = "4" -> 4 [] c = "5" -> 5 [] c = "6" -> 6 [] c = "7" -> 7
      [] c = "8" -> 8 [] c = "9" -> 9 [] c = "a" -> 10 [] c = "b" -> 11
      [] c = "c" -> 12 [] c = "d" -> 13 [] c = "e" -> 14 [] c = "f" -> 15

RECURSIVE HexValue(_)
HexValue(str) ==
    IF str = <<>> THEN 0
    ELSE 16 * HexValue(SubSeq(str, 1, Len(str) - 1)) + HexDigitValue(str[Len(str)])

\* a frame of at least 7 bytes that starts with 0xA5 and is no proxy frame
ValidStateFrame(f) == Len(f) >= 7 /\ f[1] = 165 /\ f[4] * 256 + f[5] # 33283

\* the discovery tasks for address a that have not run yet, oldest first
DiscoveriesQueued(a) == SelectSeq(pending, LAMBDA j : j[1] = "add" /\ j[2] = a)

\* C18: a valid non-proxy frame from an address the Registry lacks queues a
\* registration with on = (byte5 # 0) and brightness = byte6; the step that
\* puts an address into the Registry takes the oldest such registration,
\* names the entry <type>.<suffix>.light.<addr:04x> and fires exactly one
\* new_subdevice_found for it; an address that is in the Registry stays,
\* keeps its name and is never announced again, also when further
\* registrations for it were queued before the first one ran.
C18_DiscoveredOnce ==
    [][\A a \in FrameAddrs :
          /\ (a \notin DOMAIN substate /\ a \in DOMAIN substate')
                => /\ DiscoveriesQueued(a) # <<>>
                   /\ substate'[a].on = DiscoveriesQueued(a)[1][3]
                   /\ substate'[a].brightness = DiscoveriesQueued(a)[1][4]
                   /\ Len(substate'[a].name) = 5
                   /\ substate'[a].name[1] = device_type
                   /\ substate'[a].name[2] = "."
                   /\ substate'[a].name[3] = mac_suffix
                   /\ substate'[a].name[4] = ".light."
                   /\ Len(substate'[a].name[5]) = 4
                   /\ HexValue(substate'[a].name[5]) = a
                   /\ Cardinality(FoundEvents(events', a)) = 1
                   /\ found'[a] = 1
          /\ a \in DOMAIN substate
                => /\ a \in DOMAIN substate'
                   /\ substate'[a].name = substate[a].name
                   /\ FoundEvents(events', a) = {}
                   /\ found'[a] = found[a]
          /\ \A f \in Frames :
                (ValidStateFrame(f) /\ f[2] + f[3] * 256 = a
                    /\ a \notin DOMAIN substate /\ Notify(f))
                => /\ pending' = Append(pending, <<"add", a, f[6] # 0, f[7]>>)
                   /\ a \notin DOMAIN substate'
                   /\ events' = <<>>
          /\ found'[a] <= 1]_vars

C18_Witness ==
    /\ last[1] = "add_known"
    /\ 258 \in DOMAIN substate
    /\ found[258] = 1
    /\ substate[258].name = <<"blehome.tled", ".", "a1b2", ".light.", <<"0", "1", "0", "2">>>>

\* C19: a frame shorter than 7 bytes, or whose first byte is not 0xA5, is
\* dropped: Registry, options, dedup table, queued tasks, connection state,
\* task references and every task's position are unchanged and the step
\* fires nothing.
C19_MalformedDropped ==
    [][\A f \in Frames :
          ((Len(f) < 7 \/ f[1] # 165) /\ Notify(f))
          => /\ events' = <<>>
             /\ UNCHANGED <<subdevices, substate, options, aliased, dedup,
                            heard, reported, pending, found, connected, client, is_connected,
                            has_callback, refs, registration, connection_lock,
                            pc, ctl>>]_vars

C19_Witness == last[1] = "notify_drop" /\ events = <<>>

\* C20: a frame whose command field is 0x8203 never creates or updates a
\* Registry entry, queues no registration and fires no event but the
\* advertisement handed to the Bluetooth manager and the scanner; if it is
\* shorter than 13 bytes nothing is handed on and the dedup table is
\* unchanged.
C20_ProxyOnlyToBridge ==
    [][\A f \in Frames :
          (Len(f) >= 5 /\ f[4] * 256 + f[5] = 33283 /\ Notify(f))
          => /\ UNCHANGED <<subdevices, substate, options, aliased, pending, found>>
             /\ \A i \in DOMAIN events' :
                   events'[i][1] \in {"manager_advertisement", "scanner_advertisement"}
             /\ Len(f) < 13 => (events' = <<>> /\ UNCHANGED dedup)]_vars

C20_Witness ==
    /\ last[1] = "proxy"
    /\ events # <<>>
    /\ events[Len(events)][1] = "scanner_advertisement"
    /\ DOMAIN dedup # {}
    /\ 258 \notin DOMAIN substate

\* a proxy frame that is long enough to be handled
HandledProxyFrame(f) == Len(f) >= 13 /\ f[1] = 165 /\ f[4] * 256 + f[5] = 33283

\* the step hands on an advertisement with the payload of frame f
Forwards(f) ==
    \E i \in DOMAIN events' :
        /\ events'[i][1] \in {"manager_advertisement", "scanner_advertisement"}
        /\ events'[i][2].payload = ProxyPayload(f)

C22_ExactlyOneSink ==
    last[1] = "proxy" =>
        /\ Len(events) = 1
        /\ events[1][1] = IF scanner THEN "scanner_advertisement" ELSE "manager_advertisement"

\* C23: in the persistent-reconnect loop the attempts are numbered 1, 2,
\* ...; attempt k calls connect with timeout min(15 + 5k, 60) and, when that
\* connect has failed, waits min(2^k, 60) seconds: 2, 4, 8, 16, 32, 60 for
\* attempts 1..6 and 60 from then on; from one attempt to the next neither
\* number decreases, and neither ever exceeds 60.
C23_ReconnectBackoff ==
    [][calc'.of = "persistent_reconnect" =>
          /\ calc'.at = "connect" =>
                /\ calc.at \in {"grace", "sleep"}
                /\ calc'.attempt = calc.attempt + 1
                /\ calc'.attempt >= 1
                /\ calc'.retries = 1
                /\ calc'.timeout = IF 15 + 5 * calc'.attempt <= 60
                                   THEN 15 + 5 * calc'.attempt ELSE 60
                /\ calc'.attempt <= 6 =>
                      calc'.wait_time = <<2, 4, 8, 16, 32, 60>>[calc'.attempt]
                /\ calc'.attempt > 6 => calc'.wait_time = 60
                /\ calc.attempt >= 1 =>
                      /\ calc'.wait_time >= calc.wait_time
                      /\ calc'.timeout >= calc.timeout
          /\ calc'.at = "sleep" =>
                /\ calc.at = "connect"
                /\ calc'.wait_time = calc.wait_time
                /\ calc'.attempt = calc.attempt
          /\ calc'.wait_time <= 60
          /\ calc'.timeout <= 60]_vars

\* the sixth attempt has failed and the loop waits 60 s
C23_Witness ==
    /\ calc.of = "persistent_reconnect"
    /\ calc.at = "sleep"
    /\ calc.attempt = 6
    /\ calc.wait_time = 60
    /\ calc.timeout = 45

\* C24: within one connect call's retry loop the waits after the failed
\* attempts 1..4 are 5, 10, 15, 30 seconds.
C24_ConnectWaits ==
    (calc.of = "connect" /\ calc.at = "backoff" /\ calc.attempt + 1 <= 4)
        => calc.wait_time = <<5, 10, 15, 30>>[calc.attempt + 1]

\* C24, amended: the wait after attempt k of a connect call has raised is
\* min(5k, 30) seconds: 5, 10, 15, 20 for attempts 1..4, then 25, and 30
\* from the sixth attempt on.
C24_ConnectWaitsLinear ==
    (calc.of = "connect" /\ calc.at = "backoff")
        => /\ calc.attempt + 1 < calc.retries
           /\ calc.attempt + 1 <= 6 =>
                 calc.wait_time = <<5, 10, 15, 20, 25, 30>>[calc.attempt + 1]
           /\ calc.attempt + 1 > 6 => calc.wait_time = 30

\* the fourth attempt of a connect call has raised and the call waits 20 s
C24_Witness ==
    /\ calc.of = "connect"
    /\ calc.at = "backoff"
    /\ calc.attempt = 3
    /\ calc.wait_time = 20

\* C25: send_query_command writes [0xA5, addr mod 256, addr div 256, 0x82,
\* 0x01, 0, 0], send_control_command writes [0xA5, addr mod 256, addr div
\* 256, 0x82, 0x02, 1 if on else 0, brightness], the heartbeat writes
\* [0xA5, 0, 0, 0, 0, 0, 0], and the notification decoder reads from a
\* control frame the address, on and brightness it was built from.
C25_FrameCodec ==
    /\ calc.of = "send_query_command" =>
          calc.frame = <<165, calc.args[1] % 256, calc.args[1] \div 256, 130, 1, 0, 0>>
    /\ calc.of = "send_control_command" =>
          /\ calc.frame = <<165, calc.args[1] % 256, calc.args[1] \div 256, 130, 2,
                            IF calc.args[2] THEN 1 ELSE 0, calc.args[3]>>
          /\ ~Malformed(calc.frame)
          /\ ~IsProxy(calc.frame)
          /\ FrameAddress(calc.frame) = calc.args[1]
          /\ FrameOn(calc.frame) = calc.args[2]
          /\ FrameBrightness(calc.frame) = calc.args[3]
    /\ calc.of = "heartbeat_loop" => calc.frame = <<165, 0, 0, 0, 0, 0, 0>>

\* a control frame for the largest address, on, at full brightness
C25_Witness ==
    /\ calc.of = "send_control_command"
    /\ calc.args = <<65535, TRUE, 255>>
    /\ calc.frame = <<165, 255, 255, 130, 2, 1, 255>>

\* sweep s runs its loop up to the next await: every such run moves its
\* loop variable, as does a cancel() of the sweep
SweepStep(s) ==
    /\ pc[s] \in {"sn_new", "sn_sleep"}
    /\ pc'[s] # "cancelled"
    /\ scan_addr'[s] # scan_addr[s]

\* a QUERY of sweep s reaches write_gatt_char
SweepWrites(s) == pc[s] # "sc_write" /\ pc'[s] = "sc_write"

\* C26: a sweep over 1..R queries one address at a time in ascending order,
\* skipping exactly the addresses that are in the Registry when it reaches
\* them; when it finds the Session not connected it ends, and no QUERY of a
\* sweep is written once the Session has been not connected during the sweep.
C26_Sweep ==
    [][\A s \in ScanTasks :
          /\ SweepStep(s) =>
                /\ ~connected => pc'[s] = "done"
                /\ pc'[s] = "done" /\ connected =>
                      \A b \in scan_addr[s]..limit.range : b \in subdevices
                /\ pc'[s] # "done" =>
                      LET a == scan_addr'[s] - 1
                      IN /\ a \in scan_addr[s]..limit.range
                         /\ a \notin subdevices
                         /\ \A b \in scan_addr[s]..(a - 1) : b \in subdevices
          /\ SweepWrites(s) => connected /\ s \notin outage]_vars

\* C27: in every reachable state at most one mesh-scan sweep of the Session
\* is live, also when the Session disconnects and connects again before the
\* delayed start_scan of the earlier connect has fired.
C27_OneSweep == Cardinality(ScansLive) <= 1

\* the persistent-reconnect loops that sleep, or are in a connect() that has
\* not opened the transport yet
ReconnectsTrying ==
    {r \in RcTasks : pc[r] \in {"rc_grace", "rc_sleep", "cn_wait", "cn_close",
                                "cn_open", "cn_backoff"}}

\* C28: while a persistent-reconnect loop waits or attempts and has not yet
\* succeeded no heartbeat loop is live, and when the connect() of such a loop
\* returns True the loop ends and the Session is connected with a heartbeat
\* loop live.
C28_HeartbeatOrReconnect ==
    /\ ReconnectsTrying # {} => HeartbeatsLive = {}
    /\ \A r \in RcTasks :
          last = <<"connect_ok", r>> =>
             /\ pc[r] = "done"
             /\ connected
             /\ HeartbeatsLive # {}

\* connect() has just returned True
ConnectSucceeded == \E t \in Tasks : last = <<"connect_ok", t>>

\* write_gatt_char has just returned for the QUERY of address a that a
\* connect had spawned
QueryWritten(a) ==
    \E q \in QTasks : last = <<"write_ok", q>> /\ query_address[q] = a

\* the connection is up: the Session is connected and the link is there
ConnectionUp == connected /\ is_connected

C30_RegistryAccumulates ==
    [][/\ subdevices \subseteq subdevices'
       /\ DOMAIN substate' = subdevices'
       /\ \A a \in subdevices : substate'[a].name = substate[a].name]_vars

\* address 1 was discovered, the update listener has rebuilt the Registry
\* from the options, a control command has switched the entry off, and the
\* Session has been disconnected and connected again
C30_Witness ==
    /\ 1 \in subdevices
    /\ 1 \in aliased
    /\ substate[1].name = SubdeviceName(1)
    /\ ~substate[1].on
    /\ found[1] = 1
    /\ connected
    /\ closed = FALSE
    /\ scan_timers = 2

\* C31: when every task spawned by the notification handler has finished, in
\* a Session that has sent no control command, the Registry holds for every
\* address that a valid state frame came from the on and brightness of the
\* most recent such frame.
C31_LastFrameWins ==
    pending = <<>> =>
       \A a \in DOMAIN reported :
          /\ a \in DOMAIN substate
          /\ <<substate[a].on, substate[a].brightness>> = reported[a]

\* the subdevice_updated and new_subdevice_found events among evs
RegistryEvents(evs) ==
    {i \in DOMAIN evs : evs[i][1] \in {"subdevice_updated", "new_subdevice_found"}}

\* C32: a send_control_command whose send_command returns False, as the
\* Session is not connected or the write raised, leaves the Registry as it
\* was and fires no subdevice_updated; one that succeeds for an address that
\* is not in the Registry creates no entry and fires no event.
C32_ControlOnlyOnSuccess ==
    [][\A e \in Ext :
          /\ last' \in {<<"send_noop", e>>, <<"write_fail", e>>}
                => /\ substate' = substate
                   /\ subdevices' = subdevices
                   /\ options' = options
                   /\ RegistryEvents(events') = {}
          /\ (pc[e] = "sc_write" /\ ctl[e] # NoCtl /\ last' = <<"write_ok", e>>
                 /\ ctl[e].address \notin subdevices)
                => /\ substate' = substate
                   /\ subdevices' = subdevices
                   /\ options' = options
                   /\ events' = <<>>]_vars

\* a control command for address 1 has been written while the Registry has
\* no entry for it
C32_Witness ==
    /\ \E e \in Ext : last = <<"write_ok", e>>
    /\ 1 \notin subdevices
    /\ DOMAIN substate = subdevices
    /\ events = <<>>

\* C33: in a connect call an attempt that fails, in whatever way, with a
\* further attempt remaining is followed by a wait of min(5 * (attempt + 1),
\* 30) seconds before the next attempt starts; the last attempt is followed
\* by no wait.
C33_WaitAfterEveryFailure ==
    [][(calc.of = "connect" /\ calc.at = "open" /\ calc' # calc
           /\ calc'.at # "returned")
          => IF calc.attempt < calc.retries - 1
             THEN /\ calc'.at = "backoff"
                  /\ calc'.attempt = calc.attempt
                  /\ calc'.wait_time = Min(5 * (calc.attempt + 1), 30)
             ELSE calc'.at = "failed"]_vars

\* the byte that a pair of upper-case hex digits stands for
PairValue(p) ==
    16 * ((CHOOSE i \in 1..16 : UpperHexChars[i] = p[1]) - 1)
       + (CHOOSE i \in 1..16 : UpperHexChars[i] = p[2]) - 1

\* the advertisement adv carries what the proxy frame f declares: the N
\* bytes after byte 12 where N is byte 12, byte 5 as a signed byte, and
\* bytes 6..11 as the address
CarriesDeclared(adv, f) ==
    /\ Len(f) >= 13 + f[13]
    /\ adv.payload = [k \in 1..f[13] |-> f[13 + k]]
    /\ adv.rssi \in -128..127
    /\ (adv.rssi - f[6]) % 256 = 0
    /\ Len(adv.address) = 6
    /\ \A k \in 1..6 : PairValue(adv.address[k]) = f[6 + k]

\* C34: a proxy frame that is forwarded is forwarded with exactly the N
\* payload bytes that its byte 12 declares (bytes 13..13+N-1), with byte 5
\* read as a signed 8-bit number as its RSSI and with bytes 6..11 as its
\* address; a frame that carries fewer than N payload bytes is not forwarded
\* with a shortened payload.
C34_ProxyFields ==
    [][\A f \in Frames :
          (HandledProxyFrame(f) /\ Notify(f))
          => \A i \in DOMAIN events' :
                events'[i][1] \in {"manager_advertisement", "scanner_advertisement"}
                   => CarriesDeclared(events'[i][2], f)]_vars

\* C35: every key of the Registry is a mesh address in 1..65535: no
\* sequence of inbound frames, a frame that is no proxy frame and carries
\* address 0 (an echoed heartbeat) among them, registers address 0.
C35_RegistryKeys ==
    \A a \in subdevices \cup DOMAIN substate : a \in 1..65535

\* a connect or a disconnect call has started and not returned
CallInProgress == \E t \in Tasks : pc[t] \in ConnectPcs \cup {"dc_wait", "dc_close"}

\* C36: whenever the Session is Connected, the host is running and no
\* connect or disconnect call is in progress, a heartbeat loop is live.
C36_ConnectedHasHeartbeat ==
    (connected /\ is_running /\ ~CallInProgress) => HeartbeatsLive # {}

\* a persistent-reconnect loop has brought the Session back: its connect has
\* returned True, the Session is Connected and at rest, and the heartbeat
\* loop that connect started is live
C36_Witness ==
    /\ \E r \in RcTasks : last = <<"connect_ok", r>>
    /\ connected /\ is_running /\ ~CallInProgress
    /\ Quiet
    /\ HeartbeatsLive # {}
    /\ heartbeat_task # None
    /\ pc[heartbeat_task] \in {"hb_new", "hb_sleep"}

\* the step hands an advertisement to a sink
Delivers ==
    \E i \in DOMAIN events' :
        events'[i][1] \in {"manager_advertisement", "scanner_advertisement"}

\* C37: the dedup table records a payload only when the advertisement was
\* handed to a sink, so that an advertisement that arrives while neither a
\* scan source nor the manager's injection is available does not make a
\* later identical one of the same originator be suppressed.
C37_RecordedMeansDelivered ==
    [][dedup' # dedup => Delivers]_vars

\* C38: a connect call whose transport open has succeeded returns success
\* without another attempt: nothing that happens between the post-connection
\* steps, the registration of a light heard for the first time while connect
\* paces its initial queries included, makes the attempt count as failed or
\* makes connect return failure.
C38_OpenedConnectSucceeds ==
    [][\A t \in Ext :
          pc[t] \in {"cn_notify", "cn_query"}
             => \/ pc'[t] \in {"cn_notify", "cn_query"}
                \/ last' = <<"connect_ok", t>>]_vars

\* the step has fired availability_changed with connected = true
AnnouncedUp == \E i \in DOMAIN events : events[i] = AvailabilityChanged(TRUE)

\* C39: availability_changed with connected = true is fired only when
\* self.connected is True, and connect returns True only in such a state,
\* also when the disconnected callback has run between the transport open
\* and the end of the post-connection steps.
C39_SuccessMeansConnected ==
    /\ AnnouncedUp => connected
    /\ (\E t \in Tasks : last \in {<<"connect_ok", t>>, <<"connect_idem", t>>}) => connected

\* the task waits in the queue of the Session lock
Queued(t) == \E i \in DOMAIN connection_lock.waiters : connection_lock.waiters[i] = t

\* no task asks for the lock while it holds it or waits for it already
NoReacquire ==
    /\ \A t \in Tasks : Holds(t) => ~Queued(t)
    /\ \A i, j \in DOMAIN connection_lock.waiters :
          connection_lock.waiters[i] = connection_lock.waiters[j] => i = j

\* the task is inside a call that has asked for the lock: it waits for it
\* or holds it
Engaged(t) == Holds(t) \/ pc[t] \in WaitPcs

\* C40: the Session lock never deadlocks: no task acquires it while it holds
\* it, every task that holds it releases it, also when it fails or is
\* cancelled, and under fair scheduling with transport calls that return
\* every connect, disconnect or send_command that waits for the lock goes on:
\* again and again each task neither holds the lock nor waits for it.
C40_LockLive ==
    /\ []NoReacquire
    /\ \A t \in Tasks : []<>~Engaged(t)

\* a call that waited has been handed the lock and has not gone on yet,
\* another call waits behind it, and a task that was cancelled unwinds
C40_Witness ==
    \E t \in Tasks, u \in Tasks, c \in Tasks :
        /\ Holds(t) /\ pc[t] \in WaitPcs
        /\ Queued(u) /\ pc[u] \in WaitPcs
        /\ pc[c] = "cancelled"

====
